---------------------------- MODULE Spec2Model ----------------------------
(***************************************************************************)
(* A model of revengate's map engine (src/revengate/maps.py): the tile     *)
(* grid with its occupancy indices, the spatial queries, the path finder,  *)
(* the level builder and the maze generators.                              *)
(*                                                                         *)
(* Positions are pairs <<x, y>>; Python's None is the empty tuple.  A      *)
(* Python dict is a function whose DOMAIN is the set of its keys.          *)
(***************************************************************************)
EXTENDS Integers, Sequences, FiniteSets, TLC

VARIABLES
    tiles,      \* Map.tiles: tiles[x][y], an Array(width, height)
    id_to_a,    \* Map._id_to_a: actor.id -> actor
    a_to_pos,   \* Map._a_to_pos: actor -> position
    pos_to_a,   \* Map._pos_to_a: position -> actor
    i_to_pos,   \* Map._i_to_pos: item -> position
    pos_to_i,   \* Map._pos_to_i: position -> stack of items (a defaultdict)
    pos_to_m,   \* Map._pos_to_m: position -> mood
    world,      \* the maps of a dungeon, by Map.id: their tiles and _map_to_conn
    rooms,      \* Builder._rooms: the RoomPlans, in registration order
    maze,       \* a running RecursiveBacktracker: rect, visited, call stack
    last        \* the last call made: its arguments and its outcome

mapVars == <<tiles, id_to_a, a_to_pos, pos_to_a, i_to_pos, pos_to_i, pos_to_m>>
vars == <<tiles, id_to_a, a_to_pos, pos_to_a, i_to_pos, pos_to_i, pos_to_m,
          world, rooms, maze, last>>

None == <<>>
NoErr == "ok"

(***************************************************************************)
(* Bounds of the model.                                                    *)
(***************************************************************************)
Width == 3
Height == 2

Max(a, b) == IF a >= b THEN a ELSE b
Min(a, b) == IF a <= b THEN a ELSE b
Abs(a) == IF a >= 0 THEN a ELSE -a

(***************************************************************************)
(* Tiles: TileType members, and Connector objects.                         *)
(***************************************************************************)
TileType == {"SOLID_ROCK", "FLOOR", "WALL", "WALL_V", "WALL_H",
             "DOORWAY_OPEN", "DOORWAY_CLOSED"}
T(type) == [type |-> type]
SOLID_ROCK == T("SOLID_ROCK")
FLOOR == T("FLOOR")
WALL == T("WALL")
DOORWAY_OPEN == T("DOORWAY_OPEN")
DOORWAY_CLOSED == T("DOORWAY_CLOSED")
WALKABLE == {FLOOR, DOORWAY_OPEN}
SEE_THROUGH == {FLOOR, DOORWAY_OPEN}
WALLS == {WALL, T("WALL_H"), T("WALL_V")}
Connector(char, dest_map) ==
    [type |-> "Connector", char |-> char, dest_map |-> dest_map]
IsConnector(tile) == tile.type = "Connector"

(***************************************************************************)
(* Array(width, height, fill) and the geometry of a grid.                  *)
(***************************************************************************)
Array(width, height, fill) ==
    [x \in 0..(width - 1) |-> [y \in 0..(height - 1) |-> fill]]
SetTile(grid, pos, tile) ==
    [grid EXCEPT ![pos[1]] = [@ EXCEPT ![pos[2]] = tile]]
GridSize(grid) ==
    <<Cardinality(DOMAIN grid), Cardinality(DOMAIN grid[0])>>
GridCoords(grid) == (DOMAIN grid) \X (DOMAIN grid[0])
GridInMap(grid, pos) ==
    LET w == GridSize(grid)[1]
        h == GridSize(grid)[2]
    IN  0 <= pos[1] /\ pos[1] < w /\ 0 <= pos[2] /\ pos[2] < h

size == GridSize(tiles)
is_in_map(pos) == GridInMap(tiles, pos)
iter_coords == GridCoords(tiles)
distance(pos1, pos2) ==
    Max(Abs(pos1[1] - pos2[1]), Abs(pos1[2] - pos2[2]))

(***************************************************************************)
(* Walkable and free tiles.                                                *)
(***************************************************************************)
GridWalkable(grid, pos) ==
    IF ~GridInMap(grid, pos) THEN FALSE
    ELSE LET tile == grid[pos[1]][pos[2]]
         IN  IsConnector(tile) \/ tile \in WALKABLE
is_walkable(pos) == GridWalkable(tiles, pos)
\* is_free without the test of _pos_to_a
GridFreeOfTiles(grid, occupied, pos) ==
    IF GridWalkable(grid, pos) THEN TRUE ELSE FALSE
GridFree(grid, occupied, pos) ==
    IF GridWalkable(grid, pos) /\ pos \notin occupied THEN TRUE ELSE FALSE
is_free(pos) == GridFree(tiles, DOMAIN pos_to_a, pos)


(***************************************************************************)
(* Map._ring: the square ring of a radius around a centre, counter-        *)
(* clockwise from its bottom-left corner.  filter_pred is given by the set *)
(* of positions it rejects (the empty set: no filter_pred).  shuffle is    *)
(* not a parameter: a caller that shuffles takes the tiles in any order.   *)
(***************************************************************************)
\* a ring whose right side starts again at the bottom-right corner
RingRawCornerTwice(center, radius) ==
    LET x == center[1]
        y == center[2]
        r == radius
        bottom == [k \in 1..(2 * r + 1) |-> <<x + (k - 1 - r), y - r>>]
        right == [k \in 1..(2 * r + 1) |-> <<x + r, y + (k - 1 - r)>>]
        top == [k \in 1..(2 * r) |-> <<x + (r - k), y + r>>]
        left == [k \in 1..(2 * r - 1) |-> <<x - r, y + (r - k)>>]
    IN  bottom \o right \o top \o left

RingRaw(center, radius) ==
    LET x == center[1]
        y == center[2]
        r == radius
        bottom == [k \in 1..(2 * r + 1) |-> <<x + (k - 1 - r), y - r>>]
        right == [k \in 1..(2 * r) |-> <<x + r, y + (k - r)>>]
        top == [k \in 1..(2 * r) |-> <<x + (r - k), y + r>>]
        left == [k \in 1..(2 * r - 1) |-> <<x - r, y + (r - k)>>]
    IN  bottom \o right \o top \o left

RingOn(grid, occupied, center, radius, free, reject, in_map, sparse) ==
    LET InMap(t) == GridInMap(grid, t)
        Kept(t) == t \notin reject
        Free(t) == GridFree(grid, occupied, t)
        \* sift with sparse=False: pred(t) and t or None
        Pad(ok, t) == IF t # None /\ ok THEN t ELSE None
        raw == RingRaw(center, radius)
        s1 == IF ~in_map THEN raw
              ELSE IF sparse THEN SelectSeq(raw, InMap)
              ELSE [k \in DOMAIN raw |-> Pad(InMap(raw[k]), raw[k])]
        s2 == IF reject = {} THEN s1
              ELSE IF sparse THEN SelectSeq(s1, Kept)
              ELSE [k \in DOMAIN s1 |-> Pad(Kept(s1[k]), s1[k])]
        s3 == IF ~free THEN s2
              ELSE IF sparse THEN SelectSeq(s2, Free)
              ELSE [k \in DOMAIN s2 |->
                       IF s2[k] = None THEN None ELSE Pad(Free(s2[k]), s2[k])]
    IN  s3

Ring(center, radius, free, reject, in_map, sparse) ==
    RingOn(tiles, DOMAIN pos_to_a, center, radius, free, reject, in_map, sparse)

adjacents(pos, free, reject, in_map, sparse) ==
    Ring(pos, 1, free, reject, in_map, sparse)

Range(seq) == {seq[k] : k \in DOMAIN seq}

(***************************************************************************)
(* Map._nearby_tiles(pos, free, shuffle=True): the rings of radius 1 to    *)
(* max(w, h) - 1, each shuffled.  NearbyFirst is what next() on the        *)
(* generator can give: any tile of the first ring that has one.  The empty *)
(* set stands for an exhausted generator (StopIteration).                  *)
(***************************************************************************)
NearbyFirst(pos, free) ==
    LET radii == {rad \in 1..(Max(size[1], size[2]) - 1) :
                     Ring(pos, rad, free, {}, TRUE, TRUE) # <<>>}
    IN  IF radii = {} THEN {}
        ELSE LET first == CHOOSE rad \in radii : \A o \in radii : rad <= o
             IN  Range(Ring(pos, first, free, {}, TRUE, TRUE))

(***************************************************************************)
(* Map.random_pos(free): the positions it can return.  Five random draws,  *)
(* then next() on the tiles near the last draw; every suitable tile can be *)
(* drawn, and the tiles near a draw are suitable tiles.  The empty set     *)
(* stands for the StopIteration of the exhausted generator.                *)
(***************************************************************************)
random_pos(free) ==
    IF free THEN {p \in iter_coords : is_free(p)} ELSE iter_coords

(***************************************************************************)
(* The things that can be handed to a Map: actors, items, moods, and a     *)
(* value of a type the map does not index.  actor.id is unique per actor.  *)
(***************************************************************************)
Actors == {"hero", "rat"}
Items == {"potion"}
Moods == {"mood"}
Others == {"rock"}
Things == Actors \cup Items \cup Moods \cup Others
ActorId(actor) == <<"id", actor>>

\* dict operations
DictSet(d, k, v) == (k :> v) @@ d
DictDel(d, k) == [j \in (DOMAIN d) \ {k} |-> d[j]]
Empty == <<>>

\* ItemCollection.remove(item): the stack without its first occurrence of item
StackRemove(stack, item) ==
    LET at == CHOOSE k \in DOMAIN stack :
                  stack[k] = item /\ \A j \in 1..(k - 1) : stack[j] # item
    IN  [k \in 1..(Len(stack) - 1) |->
            IF k < at THEN stack[k] ELSE stack[k + 1]]

FindIn(a2p, i2p, thing) ==
    IF thing \in DOMAIN a2p THEN a2p[thing]
    ELSE IF thing \in DOMAIN i2p THEN i2p[thing]
    ELSE None
find(thing) == FindIn(a_to_pos, i_to_pos, thing)
Contains(thing) == thing \in DOMAIN a_to_pos \/ thing \in DOMAIN i_to_pos
actor_at(pos) == IF pos \in DOMAIN pos_to_a THEN pos_to_a[pos] ELSE "None"
items_at(pos) == IF pos \in DOMAIN pos_to_i THEN pos_to_i[pos] ELSE None

Call(op, thing, pos, fallback, ret, err) ==
    [op |-> op, thing |-> thing, pos |-> pos, fallback |-> fallback,
     ret |-> ret, err |-> err,
     was_free |-> IF pos = None THEN FALSE ELSE is_free(pos),
     ret_was_free |-> IF ret = None THEN FALSE ELSE is_free(ret),
     noop |-> err # NoErr]
Raised(err) == [err |-> err, pos |-> None]
Returned(pos) == [err |-> NoErr, pos |-> pos]

(***************************************************************************)
(* Map.place(thing, pos, fallback): PlaceOutcomes is every way the call    *)
(* can end, a raised exception or the final position.                      *)
(***************************************************************************)
\* place without the test for an actor at pos
PlaceAtUnchecked(thing, pos, fallback) ==
    IF thing \in Actors \cup Items \cup Moods THEN {Returned(pos)}
    ELSE {Raised("ValueError")}

PlaceAt(thing, pos, fallback) ==
    IF thing \in Actors THEN
        IF pos \in DOMAIN pos_to_a THEN
            IF fallback THEN
                \* the generator is always true: next() ends the search
                IF NearbyFirst(pos, TRUE) = {} THEN {Raised("StopIteration")}
                ELSE {Returned(p) : p \in NearbyFirst(pos, TRUE)}
            ELSE {Raised("ValueError")}
        ELSE {Returned(pos)}
    ELSE IF thing \in Items \cup Moods THEN {Returned(pos)}
    ELSE {Raised("ValueError")}

\* place without the test that the thing is already on the map
PlaceOutcomesAgain(thing, pos, fallback) ==
    LET first == IF pos = None THEN random_pos(TRUE) ELSE {pos}
    IN  IF first = {} THEN {Raised("StopIteration")}
        ELSE UNION {PlaceAt(thing, p, fallback) : p \in first}

PlaceOutcomes(thing, pos, fallback) ==
    IF Contains(thing) THEN {Raised("ValueError")}
    ELSE LET first == IF pos = None THEN random_pos(TRUE) ELSE {pos}
         IN  IF first = {} THEN {Raised("StopIteration")}
             ELSE UNION {PlaceAt(thing, p, fallback) : p \in first}

PlaceActor(actor, pos) ==
    /\ id_to_a' = DictSet(id_to_a, ActorId(actor), actor)
    /\ a_to_pos' = DictSet(a_to_pos, actor, pos)
    /\ pos_to_a' = DictSet(pos_to_a, pos, actor)
    /\ UNCHANGED <<i_to_pos, pos_to_i, pos_to_m>>

PlaceItem(item, pos) ==
    /\ i_to_pos' = DictSet(i_to_pos, item, pos)
    /\ pos_to_i' = DictSet(pos_to_i, pos, Append(
           IF pos \in DOMAIN pos_to_i THEN pos_to_i[pos] ELSE Empty, item))
    /\ UNCHANGED <<id_to_a, a_to_pos, pos_to_a, pos_to_m>>

PlaceMood(mood, pos) ==
    /\ pos_to_m' = DictSet(pos_to_m, pos, mood)
    /\ UNCHANGED <<id_to_a, a_to_pos, pos_to_a, i_to_pos, pos_to_i>>

place(thing, pos, fallback) ==
    \E o \in PlaceOutcomes(thing, pos, fallback) :
        /\ IF o.err # NoErr
               THEN UNCHANGED <<id_to_a, a_to_pos, pos_to_a,
                                i_to_pos, pos_to_i, pos_to_m>>
           ELSE IF thing \in Actors THEN PlaceActor(thing, o.pos)
           ELSE IF thing \in Items THEN PlaceItem(thing, o.pos)
           ELSE PlaceMood(thing, o.pos)
        /\ last' = Call("place", thing, pos, fallback, o.pos, o.err)
        /\ UNCHANGED <<tiles, world, rooms, maze>>

(***************************************************************************)
(* Map.remove(thing).  A del of a missing key raises KeyError and leaves   *)
(* what the statements before it did.                                      *)
(***************************************************************************)
\* remove that leaves the actor in _pos_to_a
RemoveActorKeepsTile(thing) ==
    /\ a_to_pos' = DictDel(a_to_pos, thing)
    /\ id_to_a' = DictDel(id_to_a, ActorId(thing))
    /\ UNCHANGED pos_to_a
    /\ last' = Call("remove", thing, None, FALSE, None, NoErr)

RemoveActor(thing) ==
    LET pos == a_to_pos[thing]
    IN  IF pos \notin DOMAIN pos_to_a THEN
            /\ UNCHANGED <<id_to_a, a_to_pos, pos_to_a>>
            /\ last' = Call("remove", thing, None, FALSE, None, "KeyError")
        ELSE
            /\ pos_to_a' = DictDel(pos_to_a, pos)
            /\ a_to_pos' = DictDel(a_to_pos, thing)
            /\ IF ActorId(thing) \in DOMAIN id_to_a
                   THEN /\ id_to_a' = DictDel(id_to_a, ActorId(thing))
                        /\ last' = Call("remove", thing, None, FALSE, None,
                                        NoErr)
                   ELSE /\ UNCHANGED id_to_a
                        /\ last' = [Call("remove", thing, None, FALSE, None,
                                         "KeyError") EXCEPT !.noop = FALSE]

RemoveItem(thing) ==
    LET pos == i_to_pos[thing]
    IN  /\ pos_to_i' = [pos_to_i EXCEPT ![pos] = StackRemove(@, thing)]
        /\ i_to_pos' = DictDel(i_to_pos, thing)
        /\ last' = Call("remove", thing, None, FALSE, None, NoErr)

remove(thing) ==
    /\ IF thing \in DOMAIN a_to_pos THEN
           /\ RemoveActor(thing)
           /\ UNCHANGED <<i_to_pos, pos_to_i>>
       ELSE IF thing \in DOMAIN i_to_pos THEN
           /\ RemoveItem(thing)
           /\ UNCHANGED <<id_to_a, a_to_pos, pos_to_a>>
       ELSE
           /\ last' = Call("remove", thing, None, FALSE, None, "ValueError")
           /\ UNCHANGED <<id_to_a, a_to_pos, pos_to_a, i_to_pos, pos_to_i>>
    /\ UNCHANGED <<tiles, pos_to_m, world, rooms, maze>>

(***************************************************************************)
(* Map.move(thing, there).  For an item, self._pos_to_i.remove is looked   *)
(* up on a defaultdict, which has no such attribute: AttributeError.       *)
(***************************************************************************)
\* a move that tracks whatever it is given
MoveUntracked(thing, there) ==
    /\ IF thing \in DOMAIN a_to_pos /\ a_to_pos[thing] \in DOMAIN pos_to_a
           THEN pos_to_a' = DictSet(DictDel(pos_to_a, a_to_pos[thing]),
                                    there, thing)
           ELSE pos_to_a' = DictSet(pos_to_a, there, thing)
    /\ a_to_pos' = DictSet(a_to_pos, thing, there)
    /\ last' = Call("move", thing, there, FALSE, None, NoErr)
    /\ UNCHANGED <<tiles, id_to_a, i_to_pos, pos_to_i, pos_to_m,
                   world, rooms, maze>>

MoveActor(thing, there) ==
    IF a_to_pos[thing] \notin DOMAIN pos_to_a THEN
        /\ UNCHANGED <<a_to_pos, pos_to_a>>
        /\ last' = Call("move", thing, there, FALSE, None, "KeyError")
    ELSE
        /\ pos_to_a' = DictSet(DictDel(pos_to_a, a_to_pos[thing]), there, thing)
        /\ a_to_pos' = DictSet(a_to_pos, thing, there)
        /\ last' = Call("move", thing, there, FALSE, None, NoErr)

MoveItem(thing, there) ==
    /\ UNCHANGED <<a_to_pos, pos_to_a>>
    /\ last' = Call("move", thing, there, FALSE, None, "AttributeError")

move(thing, there) ==
    /\ IF thing \in DOMAIN a_to_pos THEN MoveActor(thing, there)
       ELSE IF thing \in DOMAIN i_to_pos THEN MoveItem(thing, there)
       ELSE /\ UNCHANGED <<a_to_pos, pos_to_a>>
            /\ last' = Call("move", thing, there, FALSE, None, "ValueError")
    /\ UNCHANGED <<tiles, id_to_a, i_to_pos, pos_to_i, pos_to_m,
                   world, rooms, maze>>

(***************************************************************************)
(* Spec: one map of Width x Height tiles, and any sequence of place,       *)
(* remove and move calls on it.  Actors are placed anywhere (or at a       *)
(* random position, pos=None); items and moods at the StackSpots, and     *)
(* moved there or to (0, 1).  The map is all floor, floor with one wall,   *)
(* or walls around a single floor tile.                                    *)
(*                                                                         *)
(* last.noop marks a call that raised before it changed anything: the map  *)
(* is as it was, and the calls that can follow are those that can follow   *)
(* the state before it.  A behaviour is not continued past such a call.    *)
(***************************************************************************)
MapGrids ==
    LET floor == Array(Width, Height, FLOOR)
    IN  {floor, SetTile(floor, <<1, 0>>, WALL),
         SetTile(Array(Width, Height, WALL), <<0, 0>>, FLOOR)}
StackSpots == {<<0, 0>>}
PlaceInputs(thing) ==
    IF thing \in Actors THEN iter_coords \cup {None} ELSE StackSpots
MoveInputs(thing) ==
    IF thing \in Actors THEN iter_coords ELSE StackSpots \cup {<<0, 1>>}
NoCall == [op |-> "none", thing |-> "None", pos |-> None, fallback |-> FALSE,
           ret |-> None, err |-> NoErr, was_free |-> FALSE,
           ret_was_free |-> FALSE, noop |-> FALSE]

Init ==
    /\ tiles \in MapGrids
    /\ id_to_a = Empty
    /\ a_to_pos = Empty
    /\ pos_to_a = Empty
    /\ i_to_pos = Empty
    /\ pos_to_i = Empty
    /\ pos_to_m = Empty
    /\ world = Empty
    /\ rooms = Empty
    /\ maze = Empty
    /\ last = NoCall

Next ==
    \/ \E thing \in Things, fallback \in BOOLEAN :
           \E pos \in PlaceInputs(thing) :
               /\ ~last.noop
               /\ (fallback => thing \in Actors \cup Items)
               /\ place(thing, pos, fallback)
    \/ \E thing \in Things : ~last.noop /\ remove(thing)
    \/ \E thing \in Things :
           \E there \in MoveInputs(thing) :
               ~last.noop /\ move(thing, there)

Spec == Init /\ [][Next]_vars

(***************************************************************************)
(* Queue: a heapq of tuples.  pop gives the least tuple, (score, (x, y))   *)
(* compared left to right.  Map.path pushes a position again only with a   *)
(* strictly lower score, and a second copy of a tuple that dist_metrics    *)
(* pushed is popped right after the first and skipped (its position is     *)
(* done, or its distance is max_dist again): the heap is a set of tuples.  *)
(***************************************************************************)
TupleLE(e, o) ==
    \/ e[1] < o[1]
    \/ e[1] = o[1] /\ e[2][1] < o[2][1]
    \/ e[1] = o[1] /\ e[2][1] = o[2][1] /\ e[2][2] <= o[2][2]
\* a heap that pops its greatest tuple
HeapMax(q) == CHOOSE e \in q : \A o \in q : TupleLE(o, e)
HeapMin(q) == CHOOSE e \in q : \A o \in q : TupleLE(e, o)

\* the dict d with every key of keys set to v
DictSetAll(d, keys, v) ==
    [k \in (DOMAIN d) \cup keys |-> IF k \in keys THEN v ELSE d[k]]

RECURSIVE RebuildFrom(_, _, _, _)
RebuildFrom(start, current, seen_map, path) ==
    IF current = start THEN path
    ELSE RebuildFrom(start, seen_map[current], seen_map,
                     <<seen_map[current]>> \o path)
\* the list as the loop of _rebuild_path appends it, never reversed
RECURSIVE RebuildUnreversed(_, _, _)
RebuildUnreversed(start, stop, seen_map) ==
    IF stop = start THEN <<stop>>
    ELSE <<stop>> \o RebuildUnreversed(start, seen_map[stop], seen_map)
\* Map._rebuild_path: the path is built from stop backwards, then reversed
rebuild_path(start, stop, seen_map) ==
    RebuildFrom(start, stop, seen_map, <<stop>>)

(***************************************************************************)
(* Map.path(start, goal): A*.  PopOpen is the pop and the inner loop that  *)
(* skips the entries no longer in open_set; heappop on an empty heap       *)
(* raises IndexError.                                                      *)
(***************************************************************************)
RECURSIVE PopOpen(_, _)
PopOpen(open_q, open_set) ==
    IF open_q = {} THEN [err |-> "IndexError", current |-> None, open_q |-> {}]
    ELSE LET e == HeapMin(open_q)
         IN  IF e[2] \in open_set
                 THEN [err |-> NoErr, current |-> e[2], open_q |-> open_q \ {e}]
             ELSE PopOpen(open_q \ {e}, open_set)

\* the loop of path without its open_set.remove(current)
RECURSIVE PathLoopKeepOpen(_, _, _, _, _, _, _)
PathLoopKeepOpen(start, goal, came_from, open_q, open_set, g_scores, n) ==
    IF open_set = {} THEN [err |-> NoErr, ret |-> None, iters |-> n]
    ELSE LET popped == PopOpen(open_q, open_set)
             current == popped.current
         IN  IF popped.err # NoErr
                 THEN [err |-> popped.err, ret |-> None, iters |-> n + 1]
             ELSE IF current = goal
                 THEN [err |-> NoErr,
                       ret |-> rebuild_path(start, goal, came_from),
                       iters |-> n + 1]
             ELSE LET better ==
                          {pos \in Range(adjacents(current, FALSE, {}, TRUE, TRUE)) :
                              /\ is_free(pos) \/ pos = goal
                              /\ \/ pos \notin DOMAIN g_scores
                                 \/ g_scores[current] + distance(current, pos)
                                        < g_scores[pos]}
                      g_new == [pos \in better |->
                                   g_scores[current] + distance(current, pos)]
                  IN  PathLoopKeepOpen(start, goal,
                               DictSetAll(came_from, better, current),
                               popped.open_q \cup
                                   {<<g_new[pos] + distance(pos, goal), pos>> :
                                       pos \in better},
                               open_set \cup better,
                               g_new @@ g_scores, n + 1)

\* iters counts the passes of the outer while loop
RECURSIVE PathLoop(_, _, _, _, _, _, _)
PathLoop(start, goal, came_from, open_q, open_set, g_scores, n) ==
    IF open_set = {} THEN [err |-> NoErr, ret |-> None, iters |-> n]
    ELSE LET popped == PopOpen(open_q, open_set)
             current == popped.current
         IN  IF popped.err # NoErr
                 THEN [err |-> popped.err, ret |-> None, iters |-> n + 1]
             ELSE IF current = goal
                 THEN [err |-> NoErr,
                       ret |-> rebuild_path(start, goal, came_from),
                       iters |-> n + 1]
             ELSE LET better ==
                          {pos \in Range(adjacents(current, FALSE, {}, TRUE, TRUE)) :
                              /\ is_free(pos) \/ pos = goal
                              /\ \/ pos \notin DOMAIN g_scores
                                 \/ g_scores[current] + distance(current, pos)
                                        < g_scores[pos]}
                      g_new == [pos \in better |->
                                   g_scores[current] + distance(current, pos)]
                  IN  PathLoop(start, goal,
                               DictSetAll(came_from, better, current),
                               popped.open_q \cup
                                   {<<g_new[pos] + distance(pos, goal), pos>> :
                                       pos \in better},
                               (open_set \ {current}) \cup better,
                               g_new @@ g_scores, n + 1)

PathCall(start, goal) ==
    PathLoop(start, goal, Empty, {<<distance(start, goal), start>>}, {start},
             start :> 0, 0)

(***************************************************************************)
(* Map.dist_metrics(start, dest, max_dist) and the MapMetrics it fills:    *)
(* dists and prevs.  NoDist stands for max_dist=None.                      *)
(***************************************************************************)
NoDist == -1

RECURSIVE MetricsLoop(_, _, _, _, _, _)
MetricsLoop(dest, max_dist, open_q, done, dists, prevs) ==
    IF open_q = {} THEN [dists |-> dists, prevs |-> prevs]
    ELSE LET e == HeapMin(open_q)
             dist == e[1]
             current == e[2]
             rest == open_q \ {e}
         IN  IF current = dest THEN [dists |-> dists, prevs |-> prevs]
             ELSE IF current \in done \/ dist = max_dist
                 THEN MetricsLoop(dest, max_dist, rest, done, dists, prevs)
             ELSE LET adjs == Range(adjacents(current, TRUE, done, TRUE, TRUE))
                      better == {pos \in adjs :
                                    \/ pos \notin DOMAIN dists
                                    \/ dists[pos] > dist + 1}
                  IN  MetricsLoop(dest, max_dist,
                                  rest \cup {<<dist + 1, pos>> : pos \in adjs},
                                  done \cup {current},
                                  DictSetAll(dists, better, dist + 1),
                                  DictSetAll(prevs, better, current))

\* dist_metrics without its max_dist
DistMetricsNoLimit(start, dest, max_dist) ==
    MetricsLoop(dest, NoDist, {<<0, start>>}, {}, start :> 0, start :> None)

dist_metrics(start, dest, max_dist) ==
    MetricsLoop(dest, max_dist, {<<0, start>>}, {}, start :> 0, start :> None)

indexVars == <<id_to_a, a_to_pos, pos_to_a, i_to_pos, pos_to_i, pos_to_m>>

(***************************************************************************)
(* C3.  After place(actor, pos) of an actor that was not on the map,       *)
(* followed by remove(actor): the remove does not raise, is_free(pos) has  *)
(* the value it had before the place (for the pos asked for and for the    *)
(* position the actor got), and find(actor) is None.                       *)
(***************************************************************************)
C3_PlaceThenRemove ==
    [][(/\ last.op = "place" /\ last.err = NoErr /\ last.thing \in Actors
        /\ last'.op = "remove" /\ last'.thing = last.thing)
       => (/\ last'.err = NoErr
           /\ GridFree(tiles', DOMAIN pos_to_a', last.ret) = last.ret_was_free
           /\ (last.pos # None =>
                 GridFree(tiles', DOMAIN pos_to_a', last.pos) = last.was_free)
           /\ FindIn(a_to_pos', i_to_pos', last.thing) = None)]_vars

\* an actor has been removed from a tile that is free again, another actor
\* still standing on the map
C3_Witness ==
    /\ last.op = "remove" /\ last.thing \in Actors /\ last.err = NoErr
    /\ find(last.thing) = None
    /\ a_to_pos # Empty
    /\ \E p \in iter_coords : is_free(p)

(***************************************************************************)
(* C9.  After any sequence of place, remove and move calls the occupancy   *)
(* indices are consistent: _a_to_pos and _pos_to_a are inverse bijections, *)
(* _id_to_a holds exactly the placed actors, and every tracked item lies   *)
(* in the stack of exactly the position recorded for it.                   *)
(***************************************************************************)
C9_IndicesConsistent ==
    /\ \A a \in DOMAIN a_to_pos :
           a_to_pos[a] \in DOMAIN pos_to_a /\ pos_to_a[a_to_pos[a]] = a
    /\ \A p \in DOMAIN pos_to_a :
           pos_to_a[p] \in DOMAIN a_to_pos /\ a_to_pos[pos_to_a[p]] = p
    /\ DOMAIN id_to_a = {ActorId(a) : a \in DOMAIN a_to_pos}
    /\ \A a \in DOMAIN a_to_pos : id_to_a[ActorId(a)] = a
    /\ \A i \in DOMAIN i_to_pos :
           \A p \in DOMAIN pos_to_i :
               (i \in Range(pos_to_i[p])) <=> (p = i_to_pos[i])
    /\ \A i \in DOMAIN i_to_pos : i_to_pos[i] \in DOMAIN pos_to_i
    /\ \A p \in DOMAIN pos_to_i :
           \A i \in Range(pos_to_i[p]) : i \in DOMAIN i_to_pos

(***************************************************************************)
(* C10.  For an actor: place(actor, pos, fallback=False) raises            *)
(* ValueError when pos already holds an actor, and then no occupancy index *)
(* is changed.                                                             *)
(***************************************************************************)
C10_ActorConflict ==
    [][(/\ last'.op = "place" /\ last'.thing \in Actors /\ ~last'.fallback
        /\ last'.pos \in DOMAIN pos_to_a)
       => (last'.err = "ValueError" /\ UNCHANGED indexVars)]_vars

\* an actor was refused at a position that holds the other actor
C10_Witness ==
    /\ last.op = "place" /\ last.thing \in Actors /\ ~last.fallback
    /\ last.err = "ValueError"
    /\ last.pos \in DOMAIN pos_to_a /\ pos_to_a[last.pos] # last.thing
    /\ ~Contains(last.thing)

\* C10 as stated, for every thing: place(thing, pos, fallback=False) raises
\* ValueError when pos is already occupied, and no index is changed.
C10_AnyThingConflict ==
    [][(/\ last'.op = "place" /\ ~last'.fallback
        /\ last'.pos \in DOMAIN pos_to_a)
       => (last'.err = "ValueError" /\ UNCHANGED indexVars)]_vars

(***************************************************************************)
(* SpecPath: a map of PathSide columns of 3 tiles, up to two of them       *)
(* blocked, each by a wall or by the hero standing on it, and the path     *)
(* finder's queries on it.  A behaviour records one query: the queries    *)
(* change nothing of the map.                                              *)
(***************************************************************************)
PathSide == 3
MaxDist == 2

PathFloor == Array(PathSide, 3, FLOOR)
\* a wall from side to side between column 0 and the columns past 1
Fence == {<<1, y>> : y \in 0..2}
Walled(grid, blocked) ==
    [x \in DOMAIN grid |-> [y \in DOMAIN grid[x] |->
        IF <<x, y>> \in blocked THEN WALL ELSE grid[x][y]]]

InitPath ==
    /\ \E b1 \in GridCoords(PathFloor) \cup {None} :
       \E b2 \in GridCoords(PathFloor) \cup {None}, occ \in {b1, None} :
       \E fence \in IF b2 = None THEN {{}, Fence} ELSE {{}} :
           /\ tiles = Walled(PathFloor, ({b1, b2} \cup fence) \ {occ})
           /\ a_to_pos = IF occ = None THEN Empty ELSE "hero" :> occ
           /\ pos_to_a = IF occ = None THEN Empty ELSE occ :> "hero"
           /\ id_to_a = IF occ = None THEN Empty
                        ELSE ActorId("hero") :> "hero"
    /\ i_to_pos = Empty
    /\ pos_to_i = Empty
    /\ pos_to_m = Empty
    /\ world = Empty
    /\ rooms = Empty
    /\ maze = Empty
    /\ last = NoCall

path(start, goal) ==
    /\ last = NoCall
    /\ LET res == PathCall(start, goal)
       IN  last' = [op |-> "path", start |-> start, goal |-> goal,
                    ret |-> res.ret, err |-> res.err, iters |-> res.iters]
    /\ UNCHANGED <<mapVars, world, rooms, maze>>

metrics(start, max_dist) ==
    /\ last = NoCall
    /\ last' = [op |-> "dist_metrics", start |-> start, max_dist |-> max_dist,
                ret |-> dist_metrics(start, None, max_dist), err |-> NoErr]
    /\ UNCHANGED <<mapVars, world, rooms, maze>>

NextPath ==
    \/ \E start \in iter_coords, goal \in iter_coords : path(start, goal)
    \/ \E start \in iter_coords, max_dist \in {NoDist} \cup 0..MaxDist :
           metrics(start, max_dist)

SpecPath == InitPath /\ [][NextPath]_vars

(***************************************************************************)
(* C1.  For every start and every goal that dist_metrics(start) records    *)
(* as reachable, path(start, goal) returns a path, and the number of its   *)
(* positions minus 1 is dist_metrics(start)[goal].                         *)
(***************************************************************************)
C1_PathLengthIsDistance ==
    last.op = "path" =>
        LET dists == dist_metrics(last.start, None, NoDist).dists
        IN  last.goal \in DOMAIN dists =>
                /\ last.err = NoErr
                /\ last.ret # None
                /\ Len(last.ret) - 1 = dists[last.goal]

\* a path that walks around blocked tiles: longer than the grid distance
C1_Witness ==
    /\ last.op = "path" /\ last.ret # None
    /\ last.goal \in DOMAIN dist_metrics(last.start, None, NoDist).dists
    /\ Len(last.ret) - 1 > distance(last.start, last.goal)

\* the positions a walk from start to goal can be on: start, then from any
\* of them a tile next to it that is free or is goal itself
RECURSIVE Walk(_, _, _)
Walk(seen, open, goal) ==
    LET more == {pos \in open :
                    \E cur \in seen \ {goal} : distance(cur, pos) = 1}
    IN  IF more = {} THEN seen
        ELSE Walk(seen \cup more, open \ more, goal)
WalkFrom(start, goal) ==
    Walk({start}, {pos \in iter_coords : is_free(pos) \/ pos = goal} \ {start},
         goal)

(***************************************************************************)
(* C15.  path(start, goal) returns without an exception for every start    *)
(* and goal: the pop of the lazy-deletion loop never meets an empty queue  *)
(* (IndexError), the outer loop makes at most one pass per tile of the     *)
(* map, and the call returns None exactly when no walk leads from start to *)
(* goal.                                                                   *)
(***************************************************************************)
C15_PathEnds ==
    last.op = "path" =>
        /\ last.err = NoErr
        /\ last.iters <= Cardinality(iter_coords)
        /\ last.ret = None <=> last.goal \notin WalkFrom(last.start, last.goal)

\* a goal behind the fence: the search empties its open set and returns None
C15_Witness ==
    /\ last.op = "path" /\ last.err = NoErr
    /\ last.ret = None
    /\ last.iters > 1
    /\ is_free(last.goal)

(***************************************************************************)
(* Rings and neighbours.  The map is a square of floor, or that square     *)
(* with one wall; the hero is placed and removed, and a call of _ring is   *)
(* recorded in last.  _ring does not change the map: a behaviour ends with *)
(* the call it records.                                                    *)
(*                                                                         *)
(* With sparse=False a tile rejected by in_map is None when is_free gets   *)
(* it, and is_free(None) cannot unpack it: _ring raises TypeError.         *)
(***************************************************************************)
RingSide == 5
MaxRadius == 2

RingErr(center, radius, free, in_map, sparse) ==
    IF free /\ ~sparse
            /\ None \in Range(Ring(center, radius, FALSE, {}, in_map, sparse))
    THEN "TypeError" ELSE NoErr

RingGrids ==
    LET floor == Array(RingSide, RingSide, FLOOR)
    IN  {floor, SetTile(floor, <<1, 2>>, WALL)}

InitRing ==
    /\ tiles \in RingGrids
    /\ id_to_a = Empty
    /\ a_to_pos = Empty
    /\ pos_to_a = Empty
    /\ i_to_pos = Empty
    /\ pos_to_i = Empty
    /\ pos_to_m = Empty
    /\ world = Empty
    /\ rooms = Empty
    /\ maze = Empty
    /\ last = NoCall

ring(center, radius, free, in_map, sparse) ==
    /\ last.op # "ring" /\ ~last.noop
    /\ LET err == RingErr(center, radius, free, in_map, sparse)
       IN  last' = [op |-> "ring", center |-> center, radius |-> radius,
                    free |-> free, in_map |-> in_map, sparse |-> sparse,
                    ret |-> IF err = NoErr
                            THEN Ring(center, radius, free, {}, in_map, sparse)
                            ELSE None,
                    err |-> err]
    /\ UNCHANGED <<mapVars, world, rooms, maze>>

NextRing ==
    \/ \E pos \in iter_coords :
           /\ last.op # "ring" /\ ~last.noop
           /\ place("hero", pos, FALSE)
    \/ /\ last.op # "ring" /\ ~last.noop
       /\ remove("hero")
    \/ \E center \in iter_coords, radius \in 1..MaxRadius :
           \E free \in BOOLEAN, in_map \in BOOLEAN, sparse \in BOOLEAN :
               ring(center, radius, free, in_map, sparse)

SpecRing == InitRing /\ [][NextRing]_vars

NoDuplicates(seq) == Cardinality(Range(seq)) = Len(seq)

(***************************************************************************)
(* C2.  The raw ring of radius r (no filter predicate, free=False,         *)
(* in_map=False) has exactly 8*r coordinates, all different, each at       *)
(* Chebyshev distance r from the centre.  With in-bounds filtering the     *)
(* ring is exactly the coordinates of the map at distance r from the       *)
(* centre, each once: 8*r of them if and only if the whole raw ring is     *)
(* inside the map.                                                         *)
(***************************************************************************)
C2_RingInBounds ==
    (last.op = "ring" /\ ~last.free /\ last.sparse) =>
        LET raw == RingRaw(last.center, last.radius)
            at_r == {p \in iter_coords :
                        distance(p, last.center) = last.radius}
        IN  /\ Len(raw) = 8 * last.radius
            /\ NoDuplicates(raw)
            /\ \A p \in Range(raw) : distance(p, last.center) = last.radius
            /\ last.err = NoErr
            /\ ~last.in_map => last.ret = raw
            /\ last.in_map =>
                   /\ Range(last.ret) = at_r
                   /\ NoDuplicates(last.ret)
                   /\ (Len(last.ret) = 8 * last.radius
                          <=> \A p \in Range(raw) : is_in_map(p))

\* a ring of radius 2 that the border of the map cuts
C2_Witness ==
    /\ last.op = "ring" /\ ~last.free /\ last.sparse /\ last.in_map
    /\ last.radius = 2
    /\ last.ret # <<>>
    /\ Len(last.ret) < 8 * last.radius

\* C2 as it is stated: the in-bounds ring always has 8*r coordinates
C2_RingHas8r ==
    (last.op = "ring" /\ ~last.free /\ last.sparse /\ last.in_map) =>
        /\ Len(last.ret) = 8 * last.radius
        /\ NoDuplicates(last.ret)
        /\ \A p \in Range(last.ret) :
               distance(p, last.center) = last.radius

(***************************************************************************)
(* C8.  adjacents(pos, free=True) returns exactly the neighbours of pos    *)
(* (Chebyshev distance 1) inside the map that are walkable and hold no     *)
(* actor, each once.  On the all-floor 5x5 grid adjacents((2,2),           *)
(* free=True) is the 8 surrounding cells, and with an actor at (2,3) it is *)
(* the other 7.                                                            *)
(***************************************************************************)
ScenarioGrid == Array(5, 5, FLOOR)
Around22 == {<<1, 1>>, <<2, 1>>, <<3, 1>>, <<1, 2>>, <<3, 2>>,
             <<1, 3>>, <<2, 3>>, <<3, 3>>}

C8_AdjacentsFree ==
    (last.op = "ring" /\ last.radius = 1 /\ last.free /\ last.in_map
        /\ last.sparse) =>
        /\ last.err = NoErr
        /\ Range(last.ret) =
               {p \in iter_coords :
                   /\ distance(p, last.center) = 1
                   /\ tiles[p[1]][p[2]].type \in {"FLOOR", "DOORWAY_OPEN"}
                   /\ \A a \in Actors : find(a) # p}
        /\ NoDuplicates(last.ret)
        /\ (tiles = ScenarioGrid /\ last.center = <<2, 2>>) =>
               /\ a_to_pos = Empty => Range(last.ret) = Around22
               /\ find("hero") = <<2, 3>> =>
                      Range(last.ret) = Around22 \ {<<2, 3>>}

\* the scenario: the actor at (2,3) is left out of the 7 cells returned
C8_Witness ==
    /\ last.op = "ring" /\ last.radius = 1 /\ last.free /\ last.in_map
    /\ last.sparse
    /\ tiles = ScenarioGrid /\ last.center = <<2, 2>>
    /\ find("hero") = <<2, 3>>
    /\ Len(last.ret) = 7

(***************************************************************************)
(* Map.line_of_sight(pos1, pos2).  The centres of the two tiles are at     *)
(* c + 0.5; sample i of nb_steps is the tile that holds the point          *)
(* ((mult - i) * centre1 + i * centre2) / mult, where int() truncates.     *)
(* Twice that point is an integer, so the tile is found with integers:     *)
(* ((mult - i) * (2*c1 + 1) + i * (2*c2 + 1)) \div (2 * mult).             *)
(***************************************************************************)
\* the sampling with mult = nb_steps: the last sample stops short of pos2
LosSampleShort(pos1, pos2, i) ==
    LET mult == distance(pos1, pos2) + 1
        At(c1, c2) ==
            ((mult - i) * (2 * c1 + 1) + i * (2 * c2 + 1)) \div (2 * mult)
    IN  <<At(pos1[1], pos2[1]), At(pos1[2], pos2[2])>>

LosSample(pos1, pos2, i) ==
    LET nb_steps == distance(pos1, pos2) + 1
        mult == Max(1, nb_steps - 1)
        At(c1, c2) ==
            ((mult - i) * (2 * c1 + 1) + i * (2 * c2 + 1)) \div (2 * mult)
    IN  <<At(pos1[1], pos2[1]), At(pos1[2], pos2[2])>>

LosSteps(pos1, pos2) ==
    [k \in 1..(distance(pos1, pos2) + 1) |-> LosSample(pos1, pos2, k - 1)]

\* a line of sight that only walls obstruct
LineOfSightPastRock(grid, pos1, pos2) ==
    LET steps == LosSteps(pos1, pos2)
    IN  IF \E k \in DOMAIN steps : grid[steps[k][1]][steps[k][2]] \in WALLS
        THEN None ELSE steps

LineOfSight(grid, pos1, pos2) ==
    LET steps == LosSteps(pos1, pos2)
    IN  IF \E k \in DOMAIN steps :
               grid[steps[k][1]][steps[k][2]] \notin SEE_THROUGH
        THEN None ELSE steps

\* the kinds of tile put on the floor: what is looked through and what not
LosTiles == {WALL, SOLID_ROCK, DOORWAY_CLOSED, DOORWAY_OPEN,
             Connector("<", "None")}

InitLos ==
    /\ \E b \in GridCoords(PathFloor) \cup {None}, tile \in LosTiles :
           tiles = IF b = None THEN PathFloor ELSE SetTile(PathFloor, b, tile)
    /\ id_to_a = Empty
    /\ a_to_pos = Empty
    /\ pos_to_a = Empty
    /\ i_to_pos = Empty
    /\ pos_to_i = Empty
    /\ pos_to_m = Empty
    /\ world = Empty
    /\ rooms = Empty
    /\ maze = Empty
    /\ last = NoCall

line_of_sight(pos1, pos2) ==
    /\ last = NoCall
    /\ last' = [op |-> "line_of_sight", pos1 |-> pos1, pos2 |-> pos2,
                ret |-> LineOfSight(tiles, pos1, pos2), err |-> NoErr]
    /\ UNCHANGED <<mapVars, world, rooms, maze>>

NextLos == \E pos1 \in iter_coords, pos2 \in iter_coords :
               line_of_sight(pos1, pos2)

SpecLos == InitLos /\ [][NextLos]_vars

TileAt(pos) == tiles[pos[1]][pos[2]]
Transparent(pos) ==
    /\ ~IsConnector(TileAt(pos))
    /\ TileAt(pos).type \in {"FLOOR", "DOORWAY_OPEN"}

(***************************************************************************)
(* C5.  line_of_sight(a, b) samples distance(a, b) + 1 tiles, a first and  *)
(* b last, each next to the one before.  It returns None if and only if    *)
(* one of them, a and b included, is not Floor or an open doorway: a wall, *)
(* but also solid rock, a closed doorway or a Connector.  Otherwise it     *)
(* returns the distance(a, b) + 1 sampled coordinates.                     *)
(***************************************************************************)
C5_LineOfSight ==
    last.op = "line_of_sight" =>
        LET steps == LosSteps(last.pos1, last.pos2)
            n == distance(last.pos1, last.pos2) + 1
        IN  /\ Len(steps) = n
            /\ steps[1] = last.pos1
            /\ steps[n] = last.pos2
            /\ \A k \in 1..(n - 1) : distance(steps[k], steps[k + 1]) = 1
            /\ last.ret = None <=> \E k \in 1..n : ~Transparent(steps[k])
            /\ last.ret # None => last.ret = steps

\* a closed doorway between the two ends hides one from the other
C5_Witness ==
    /\ last.op = "line_of_sight"
    /\ last.ret = None
    /\ distance(last.pos1, last.pos2) = 2
    /\ TileAt(LosSample(last.pos1, last.pos2, 1)) = DOORWAY_CLOSED

\* C5 as it is stated: None when a sampled tile is a Wall, a list otherwise
C5_NoneIffWall ==
    last.op = "line_of_sight" =>
        LET steps == LosSteps(last.pos1, last.pos2)
        IN  IF \E k \in DOMAIN steps : TileAt(steps[k]) = WALL
            THEN last.ret = None
            ELSE /\ last.ret # None
                 /\ Len(last.ret) = distance(last.pos1, last.pos2) + 1

(***************************************************************************)
(* Map.connect(pos1, there, pos2) and Map.arrival_pos(mapid).  world holds *)
(* the maps of a dungeon by Map.id, each with its tiles and its            *)
(* _map_to_conn.  Each map is a row of floor with a Connector on its first *)
(* two tiles; each Connector is an object of its own.  there is a map of   *)
(* the dungeon, the map itself included, or something that is not a Map.   *)
(***************************************************************************)
MapIds == {"mapA", "mapB"}
NotAMap == "notamap"
ConnGrid ==
    SetTile(SetTile(Array(Width, 1, FLOOR), <<0, 0>>, Connector("<", "None")),
            <<1, 0>>, Connector(">", "None"))

WorldTile(w, mapid, pos) == w[mapid].tiles[pos[1]][pos[2]]
SetDest(w, mapid, pos, dest) ==
    [w EXCEPT ![mapid].tiles[pos[1]][pos[2]].dest_map = dest]
SetConn(w, mapid, other, pos) ==
    [w EXCEPT ![mapid].map_to_conn = DictSet(@, other, pos)]

\* connect without its return path
ConnectOneWay(w, here, pos1, there, pos2) ==
    SetDest(SetConn(w, here, there, pos1), here, pos1, there)

Connect(w, here, pos1, there, pos2) ==
    LET w1 == SetDest(SetConn(w, here, there, pos1), here, pos1, there)
    IN  SetDest(SetConn(w1, there, here, pos2), there, pos2, here)

arrival_pos(mapid, other) == world[mapid].map_to_conn[other]

InitConnect ==
    /\ world = [m \in MapIds |-> [tiles |-> ConnGrid, map_to_conn |-> Empty]]
    /\ tiles = Empty
    /\ id_to_a = Empty
    /\ a_to_pos = Empty
    /\ pos_to_a = Empty
    /\ i_to_pos = Empty
    /\ pos_to_i = Empty
    /\ pos_to_m = Empty
    /\ rooms = Empty
    /\ maze = Empty
    /\ last = NoCall

\* connect looking at the tile of pos1 only
connectFirstTile(here, pos1, there, pos2) ==
    LET err == IF there \notin MapIds THEN "TypeError"
               ELSE IF ~IsConnector(WorldTile(world, here, pos1))
                    THEN "TypeError"
               ELSE NoErr
    IN  /\ world' = IF err # NoErr THEN world
                    ELSE IF IsConnector(WorldTile(world, there, pos2))
                    THEN Connect(world, here, pos1, there, pos2)
                    ELSE ConnectOneWay(world, here, pos1, there, pos2)
        /\ last' = [op |-> "connect", here |-> here, pos1 |-> pos1,
                    there |-> there, pos2 |-> pos2, err |-> err,
                    before |-> world]
        /\ UNCHANGED <<mapVars, rooms, maze>>

connect(here, pos1, there, pos2) ==
    LET err == IF there \notin MapIds THEN "TypeError"
               ELSE IF ~IsConnector(WorldTile(world, here, pos1))
                       \/ ~IsConnector(WorldTile(world, there, pos2))
                    THEN "TypeError"
               ELSE NoErr
    IN  /\ world' = IF err = NoErr
                    THEN Connect(world, here, pos1, there, pos2)
                    ELSE world
        /\ last' = [op |-> "connect", here |-> here, pos1 |-> pos1,
                    there |-> there, pos2 |-> pos2, err |-> err,
                    before |-> world]
        /\ UNCHANGED <<mapVars, rooms, maze>>

NextConnect ==
    \E here \in MapIds, there \in MapIds \cup {NotAMap} :
        \E pos1 \in GridCoords(ConnGrid), pos2 \in GridCoords(ConnGrid) :
            connect(here, pos1, there, pos2)

SpecConnect == InitConnect /\ [][NextConnect]_vars

Connected(here, pos1, there, pos2) ==
    /\ there \in DOMAIN world[here].map_to_conn
    /\ here \in DOMAIN world[there].map_to_conn
    /\ arrival_pos(here, there) = pos1
    /\ arrival_pos(there, here) = pos2
    /\ WorldTile(world, here, pos1).dest_map = there
    /\ WorldTile(world, there, pos2).dest_map = here

(***************************************************************************)
(* C4.  After mapA.connect(p1, mapB, p2) succeeds on two different maps,   *)
(* or on one map with p1 = p2, mapA.arrival_pos(mapB.id) is p1,            *)
(* mapB.arrival_pos(mapA.id) is p2, the Connector at p1 on mapA names      *)
(* mapB.id and the Connector at p2 on mapB names mapA.id.  A connect that  *)
(* raises TypeError (there is not a Map, or one of the two tiles is not a  *)
(* Connector) changes nothing.                                             *)
(***************************************************************************)
C4_ConnectSymmetric ==
    last.op = "connect" =>
        /\ (last.err = NoErr /\ (last.here # last.there \/ last.pos1 = last.pos2))
               => Connected(last.here, last.pos1, last.there, last.pos2)
        /\ last.err # NoErr => world = last.before

\* two maps connected a second time, at other Connectors than the first time
C4_Witness ==
    /\ last.op = "connect" /\ last.err = NoErr
    /\ last.here # last.there
    /\ last.there \in DOMAIN last.before[last.here].map_to_conn
    /\ last.before[last.here].map_to_conn[last.there] # last.pos1
    /\ Connected(last.here, last.pos1, last.there, last.pos2)

\* C4 as it is stated: for every pair of maps passed to connect
C4_EveryPair ==
    (last.op = "connect" /\ last.err = NoErr) =>
        Connected(last.here, last.pos1, last.there, last.pos2)

(***************************************************************************)
(* C14.  connect links two maps only when the tile at pos1 on this map and *)
(* the tile at pos2 on the other map are both Connectors.  When one of the *)
(* two is not, connect raises TypeError and no map's _map_to_conn and no   *)
(* tile's dest_map is changed.                                             *)
(***************************************************************************)
C14_OnlyAtConnectors ==
    (last.op = "connect" /\ last.there \in MapIds) =>
        LET both == /\ IsConnector(WorldTile(last.before, last.here, last.pos1))
                    /\ IsConnector(WorldTile(last.before, last.there, last.pos2))
        IN  /\ both <=> last.err = NoErr
            /\ ~both =>
                   /\ last.err = "TypeError"
                   /\ \A m \in MapIds :
                          /\ world[m].map_to_conn = last.before[m].map_to_conn
                          /\ \A p \in GridCoords(ConnGrid) :
                                 WorldTile(world, m, p) = WorldTile(last.before, m, p)

\* two connected maps, then a connect from a Connector to a floor tile
C14_Witness ==
    /\ last.op = "connect" /\ last.there \in MapIds /\ last.here # last.there
    /\ IsConnector(WorldTile(last.before, last.here, last.pos1))
    /\ ~IsConnector(WorldTile(last.before, last.there, last.pos2))
    /\ last.err = "TypeError"
    /\ last.there \in DOMAIN world[last.here].map_to_conn

(***************************************************************************)
(* Builder: room and random_room on a 5x5 map of solid rock.  A RoomPlan   *)
(* is its two corners and has_walls (doors_target, drawn at random, plays  *)
(* no part in the tiles).  geom.cannon_corners gives the bottom-left and   *)
(* the top-right corner of a rectangle; geom.rect_interstect is the        *)
(* axis-aligned overlap test on rectangles with their corners included;    *)
(* rng.randrange(0, n) is any of 0..n-1.                                   *)
(***************************************************************************)
MaxRooms == 3

CannonCorners(corner1, corner2) ==
    <<<<Min(corner1[1], corner2[1]), Min(corner1[2], corner2[2])>>,
      <<Max(corner1[1], corner2[1]), Max(corner1[2], corner2[2])>>>>

RectIntersect(rect1, rect2) ==
    /\ rect1[1][1] <= rect2[2][1] /\ rect2[1][1] <= rect1[2][1]
    /\ rect1[1][2] <= rect2[2][2] /\ rect2[1][2] <= rect1[2][2]

RoomPlan(corner1, corner2, walls) ==
    LET cc == CannonCorners(corner1, corner2)
    IN  [bl |-> cc[1], tr |-> cc[2], has_walls |-> walls]
to_rect(room) == <<room.bl, room.tr>>
intersect(room, rect) == RectIntersect(to_rect(room), rect)

\* RoomPlan.set_tiles: the walls on the border, floor inside
set_tiles(grid, room) ==
    LET x1 == room.bl[1]
        y1 == room.bl[2]
        x2 == room.tr[1]
        y2 == room.tr[2]
        Inside(x, y) == x1 <= x /\ x <= x2 /\ y1 <= y /\ y <= y2
        Border(x, y) == x = x1 \/ x = x2 \/ y = y1 \/ y = y2
    IN  [x \in DOMAIN grid |-> [y \in DOMAIN grid[x] |->
            IF ~Inside(x, y) THEN grid[x][y]
            ELSE IF room.has_walls /\ Border(x, y) THEN WALL
            ELSE FLOOR]]

\* any_intersect that looks at the first room only
AnyIntersectFirst(rms, rect) ==
    rms # <<>> /\ intersect(rms[1], rect)

AnyIntersect(rms, rect) ==
    \E k \in DOMAIN rms : intersect(rms[k], rect)

\* the rectangles that one turn of the loop of random_room can draw
Candidates(grid, width, height) ==
    {<<<<x1, y1>>, <<x1 + width, y1 + height>>>> :
        x1 \in 0..(GridSize(grid)[1] - width - 1),
        y1 \in 0..(GridSize(grid)[2] - height - 1)}

(***************************************************************************)
(* The runs of the loop of random_room with `turns` turns left: the        *)
(* rectangles drawn, one per turn.  The loop ends at the first rectangle   *)
(* that intersects no room, or when no turn is left.                       *)
(***************************************************************************)
RECURSIVE RandomRoomRuns(_, _, _)
RandomRoomRuns(rms, cands, turns) ==
    IF turns = 0 THEN {<<>>}
    ELSE {<<rect>> : rect \in {c \in cands : ~AnyIntersect(rms, c)}}
         \cup {<<rect>> \o run :
                  rect \in {c \in cands : AnyIntersect(rms, c)},
                  run \in RandomRoomRuns(rms, cands, turns - 1)}

ScenarioRock == Array(5, 5, SOLID_ROCK)
\* the False that random_room returns, told apart from a rectangle
False == <<FALSE>>
RoomInputs == {<<<<1, 1>>, <<3, 3>>, TRUE>>, <<<<1, 1>>, <<0, 0>>, FALSE>>}
RoomSizes == {<<3, 3>>, <<1, 3>>}
Retries == {0, 1}

\* A random_room that returned False left the builder as it was: what can
\* follow it is what can follow the state before it.
Failed == last.op = "random_room" /\ last.ret = False

InitBuilder ==
    /\ tiles = ScenarioRock
    /\ rooms = <<>>
    /\ id_to_a = Empty
    /\ a_to_pos = Empty
    /\ pos_to_a = Empty
    /\ i_to_pos = Empty
    /\ pos_to_i = Empty
    /\ pos_to_m = Empty
    /\ world = Empty
    /\ maze = Empty
    /\ last = NoCall

room(corner1, corner2, walls) ==
    LET plan == RoomPlan(corner1, corner2, walls)
    IN  /\ Len(rooms) < MaxRooms
        /\ ~Failed
        /\ rooms' = Append(rooms, plan)
        /\ tiles' = set_tiles(tiles, plan)
        /\ last' = [op |-> "room", ret |-> plan, err |-> NoErr]
        /\ UNCHANGED <<id_to_a, a_to_pos, pos_to_a, i_to_pos, pos_to_i,
                       pos_to_m, world, maze>>

random_room(width, height, nb_retry) ==
    /\ Len(rooms) < MaxRooms
    /\ ~Failed
    /\ \E run \in RandomRoomRuns(rooms, Candidates(tiles, width, height),
                                 nb_retry + 1) :
           LET rect == run[Len(run)]
               plan == RoomPlan(rect[1], rect[2], TRUE)
               found == ~AnyIntersect(rooms, rect)
           IN  /\ rooms' = IF found THEN Append(rooms, plan) ELSE rooms
               /\ tiles' = IF found THEN set_tiles(tiles, plan) ELSE tiles
               /\ last' = [op |-> "random_room", width |-> width,
                           height |-> height, nb_retry |-> nb_retry,
                           samples |-> run,
                           ret |-> IF found THEN rect ELSE False,
                           err |-> NoErr,
                           tiles |-> tiles, rooms |-> rooms]
    /\ UNCHANGED <<id_to_a, a_to_pos, pos_to_a, i_to_pos, pos_to_i,
                   pos_to_m, world, maze>>

NextBuilder ==
    \/ \E input \in RoomInputs : room(input[1], input[2], input[3])
    \/ \E dim \in RoomSizes, nb_retry \in Retries :
           random_room(dim[1], dim[2], nb_retry)

SpecBuilder == InitBuilder /\ [][NextBuilder]_vars

RectTiles(rect) == (rect[1][1]..rect[2][1]) \X (rect[1][2]..rect[2][2])
Overlaps(rect, plan) == RectTiles(rect) \cap RectTiles(<<plan.bl, plan.tr>>) # {}
ScenarioRoom == [bl |-> <<1, 1>>, tr |-> <<3, 3>>, has_walls |-> TRUE]

(***************************************************************************)
(* C7.  random_room(width, height, nb_retry) draws at most nb_retry + 1    *)
(* rectangles.  A rectangle it returns shares no tile with a room          *)
(* registered before the call, and is the room it registers and stamps.    *)
(* When every rectangle drawn overlaps a registered room it returns False  *)
(* without raising, and the tiles and the room list are what they were.    *)
(* On the 5x5 grid of solid rock with the walled room (1,1)-(3,3),         *)
(* random_room(3, 3, 0) returns False.                                     *)
(***************************************************************************)
C7_RandomRoom ==
    last.op = "random_room" =>
        LET before == last.rooms
            Clash(rect) == \E k \in DOMAIN before : Overlaps(rect, before[k])
            n == Len(last.samples)
        IN  /\ 1 <= n /\ n <= last.nb_retry + 1
            /\ last.err = NoErr
            /\ last.ret # False =>
                   /\ ~Clash(last.ret)
                   /\ last.ret = last.samples[n]
                   /\ Len(rooms) = Len(before) + 1
                   /\ to_rect(rooms[Len(rooms)]) = last.ret
                   /\ \A p \in RectTiles(last.ret) :
                          tiles[p[1]][p[2]] \in {WALL, FLOOR}
            /\ (\A k \in 1..n : Clash(last.samples[k])) =>
                   /\ last.ret = False
                   /\ n = last.nb_retry + 1
                   /\ tiles = last.tiles
                   /\ rooms = before
            /\ (before = <<ScenarioRoom>> /\ last.width = 3 /\ last.height = 3
                   /\ last.nb_retry = 0) => last.ret = False

\* the scenario: no 3 by 3 room beside the walled room (1,1)-(3,3)
C7_Witness ==
    /\ last.op = "random_room"
    /\ last.rooms = <<ScenarioRoom>>
    /\ last.tiles = set_tiles(ScenarioRock, ScenarioRoom)
    /\ last.width = 3 /\ last.height = 3 /\ last.nb_retry = 0
    /\ last.ret = False
    /\ tiles = last.tiles /\ rooms = last.rooms

(***************************************************************************)
(* RecursiveBacktracker.fill.  maze holds the algorithm at work: its rect, *)
(* its visited set, the coordinates fill was called with, and the stack of *)
(* the calls of fill(coord) that have not returned, each with the          *)
(* next_options it still has to pop.  fill() draws its start with          *)
(* rng.pos_in_rect, any position of the rect; rng.shuffle leaves the       *)
(* options in any order; list.pop takes the last one.  geom.is_in_rect     *)
(* includes the corners of the rect; geom.mid_point of two cells two apart *)
(* is the tile between them.                                               *)
(***************************************************************************)
MazeCells == 3

IsInRect(pos, r) ==
    /\ r[1][1] <= pos[1] /\ pos[1] <= r[2][1]
    /\ r[1][2] <= pos[2] /\ pos[2] <= r[2][2]
PosInRect(r) == (r[1][1]..r[2][1]) \X (r[1][2]..r[2][2])
MidPoint(pos1, pos2) ==
    <<(pos1[1] + pos2[1]) \div 2, (pos1[2] + pos2[2]) \div 2>>
Shuffles(seq) ==
    {s \in [DOMAIN seq -> Range(seq)] :
        \A k \in DOMAIN seq : \E j \in DOMAIN seq : s[j] = seq[k]}

neighbor_offsets == <<<<2, 0>>, <<-2, 0>>, <<0, 2>>, <<0, -2>>>>
neighbors(coord, r) ==
    LET all == [k \in 1..4 |-> <<neighbor_offsets[k][1] + coord[1],
                                 neighbor_offsets[k][2] + coord[2]>>]
        In(pos) == IsInRect(pos, r)
    IN  SelectSeq(all, In)

\* fill(coord) up to its loop: the tile, the visited set, the options
NextOptions(coord, visited, r) ==
    LET NotVisited(cell) == cell \notin visited
    IN  Shuffles(SelectSeq(neighbors(coord, r), NotVisited))

MazeRects(grid) ==
    {<<<<0, 0>>, <<GridSize(grid)[1] - 1, GridSize(grid)[2] - 1>>>>,
     <<<<1, 1>>, <<GridSize(grid)[1] - 2, GridSize(grid)[2] - 2>>>>}

InitMaze ==
    /\ tiles = Array(2 * MazeCells - 1, 2 * MazeCells - 1, SOLID_ROCK)
    /\ \E r \in MazeRects(tiles) :
           maze = [rect |-> r, visited |-> {}, calls |-> <<>>,
                   stack |-> <<>>, pc |-> "new"]
    /\ id_to_a = Empty
    /\ a_to_pos = Empty
    /\ pos_to_a = Empty
    /\ i_to_pos = Empty
    /\ pos_to_i = Empty
    /\ pos_to_m = Empty
    /\ world = Empty
    /\ rooms = Empty
    /\ last = NoCall

\* fill(): start drawn, then fill(start) as far as its loop
fill(start) ==
    /\ maze.pc = "new"
    /\ tiles' = SetTile(tiles, start, FLOOR)
    /\ \E options \in NextOptions(start, maze.visited \cup {start}, maze.rect) :
           maze' = [maze EXCEPT
                       !.visited = @ \cup {start},
                       !.calls = <<start>>,
                       !.stack = <<[coord |-> start, next_options |-> options]>>,
                       !.pc = "fill"]
    /\ UNCHANGED <<id_to_a, a_to_pos, pos_to_a, i_to_pos, pos_to_i, pos_to_m,
                   world, rooms, last>>

\* one turn of the loop of the innermost fill(coord)
fill_next ==
    /\ maze.pc = "fill"
    /\ LET depth == Len(maze.stack)
           frame == maze.stack[depth]
           n == Len(frame.next_options)
       IN  /\ n > 0
           /\ LET next_cell == frame.next_options[n]
                  popped == [maze.stack EXCEPT
                                ![depth].next_options = SubSeq(@, 1, n - 1)]
              IN  IF next_cell \in maze.visited
                  THEN /\ maze' = [maze EXCEPT !.stack = popped]
                       /\ UNCHANGED tiles
                  ELSE /\ tiles' = SetTile(SetTile(tiles,
                                       MidPoint(frame.coord, next_cell), FLOOR),
                                       next_cell, FLOOR)
                       /\ \E options \in NextOptions(next_cell,
                                 maze.visited \cup {next_cell}, maze.rect) :
                              maze' = [maze EXCEPT
                                  !.visited = @ \cup {next_cell},
                                  !.calls = Append(@, next_cell),
                                  !.stack = Append(popped,
                                      [coord |-> next_cell,
                                       next_options |-> options])]
    /\ UNCHANGED <<id_to_a, a_to_pos, pos_to_a, i_to_pos, pos_to_i, pos_to_m,
                   world, rooms, last>>

\* the loop of the innermost fill(coord) is over: it returns
fill_return ==
    /\ maze.pc = "fill"
    /\ LET depth == Len(maze.stack)
       IN  /\ maze.stack[depth].next_options = <<>>
           /\ maze' = [maze EXCEPT
                          !.stack = SubSeq(@, 1, depth - 1),
                          !.pc = IF depth = 1 THEN "done" ELSE "fill"]
    /\ UNCHANGED <<tiles, id_to_a, a_to_pos, pos_to_a, i_to_pos, pos_to_i,
                   pos_to_m, world, rooms, last>>

NextMaze ==
    \/ \E start \in PosInRect(maze.rect) : fill(start)
    \/ fill_next
    \/ fill_return

SpecMaze == InitMaze /\ [][NextMaze]_vars

\* the fillable cells of a rect: both components even from its origin
FillableCells(r) ==
    {pos \in PosInRect(r) :
        (pos[1] - r[1][1]) % 2 = 0 /\ (pos[2] - r[1][2]) % 2 = 0}
NbCalls(cell) == Cardinality({k \in DOMAIN maze.calls : maze.calls[k] = cell})

(***************************************************************************)
(* C6.  When fill() has returned, every fillable cell of the rect (both    *)
(* components even relative to the origin of the rect) has been visited    *)
(* exactly once and is no longer solid rock, whatever the start and the    *)
(* shuffles.                                                               *)
(***************************************************************************)
C6_EveryCellVisited ==
    maze.pc = "done" =>
        \A cell \in FillableCells(maze.rect) :
            /\ NbCalls(cell) = 1
            /\ TileAt(cell) # SOLID_ROCK

\* what does hold: a start on a fillable cell fills every fillable cell once
C6_AlignedStart ==
    (maze.pc = "done" /\ maze.calls[1] \in FillableCells(maze.rect)) =>
        /\ \A cell \in FillableCells(maze.rect) :
               NbCalls(cell) = 1 /\ TileAt(cell) = FLOOR
        /\ maze.visited = FillableCells(maze.rect)

(***************************************************************************)
(* C11.  place(actor, pos, fallback=True) of an actor that is not on the   *)
(* map, on a pos that holds an actor: when the map has a free tile the     *)
(* actor is placed on a free tile of the ring of smallest radius around    *)
(* pos that has one; when it has none the call fails with RuntimeError     *)
(* and no occupancy index is changed.                                      *)
(***************************************************************************)
FreeTiles == {p \in iter_coords : is_free(p)}
FallbackCall ==
    /\ last'.op = "place" /\ last'.thing \in Actors /\ last'.fallback
    /\ ~Contains(last'.thing)
    /\ last'.pos \in DOMAIN pos_to_a

C11_FallbackOrMapFull ==
    [][FallbackCall =>
          IF FreeTiles # {}
          THEN /\ last'.err = NoErr
               /\ last'.ret \in FreeTiles
               /\ \A q \in FreeTiles :
                      distance(last'.pos, last'.ret) <= distance(last'.pos, q)
               /\ FindIn(a_to_pos', i_to_pos', last'.thing) = last'.ret
          ELSE /\ last'.err = "RuntimeError"
               /\ UNCHANGED indexVars]_vars

\* what does hold: the nearest free ring when there is a free tile, and an
\* error that is not RuntimeError, with the indices unchanged, when not
C11_FallbackNearestRing ==
    [][FallbackCall =>
          IF FreeTiles # {}
          THEN /\ last'.err = NoErr
               /\ last'.ret \in FreeTiles
               /\ \A q \in FreeTiles :
                      distance(last'.pos, last'.ret) <= distance(last'.pos, q)
               /\ FindIn(a_to_pos', i_to_pos', last'.thing) = last'.ret
          ELSE /\ last'.err = "StopIteration"
               /\ UNCHANGED indexVars]_vars

(***************************************************************************)
(* C12.  place(thing, pos, fallback) of an actor or an item that the map   *)
(* already tracks raises ValueError, whatever pos and fallback are, and no *)
(* occupancy index is changed.                                             *)
(***************************************************************************)
C12_PlacedOnce ==
    [][(/\ last'.op = "place" /\ last'.thing \in Actors \cup Items
        /\ Contains(last'.thing))
       => (last'.err = "ValueError" /\ UNCHANGED indexVars)]_vars

\* an actor on the map was refused at a free position, fallback or not
C12_Witness ==
    /\ last.op = "place" /\ last.thing \in Actors /\ last.fallback
    /\ last.err = "ValueError"
    /\ Contains(last.thing)
    /\ last.pos # None /\ last.was_free

(***************************************************************************)
(* C13.  remove(thing) and move(thing, there) of a thing that is neither   *)
(* in _a_to_pos nor in _i_to_pos raise ValueError, and no occupancy index  *)
(* is changed.                                                             *)
(***************************************************************************)
C13_NotPresent ==
    [][(/\ last'.op \in {"remove", "move"}
        /\ ~Contains(last'.thing))
       => (last'.err = "ValueError" /\ UNCHANGED indexVars)]_vars

\* a move of an actor that is not on the map, while another one is
C13_Witness ==
    /\ last.op = "move" /\ last.thing \in Actors
    /\ last.err = "ValueError"
    /\ ~Contains(last.thing)
    /\ a_to_pos # Empty

(***************************************************************************)
(* MazePlan over a map with a walled room and a room without walls, both   *)
(* already stamped by RoomPlan.set_tiles, and the two maze generators that *)
(* carve without recursion: BinaryTree.fill and SideWinder.fill on the     *)
(* rect of the whole map.  maze holds _frozen_tiles, _corridors, the tiles *)
(* at the time the plan was created and the number of fill runs; rooms     *)
(* holds the RoomPlans with their doors.  A write past the last column of  *)
(* the tiles raises IndexError and ends the fill where it is.              *)
(***************************************************************************)
PlanWidth == 5
PlanHeight == 3
MaxFills == 2

PlanRooms ==
    <<RoomPlan(<<0, 0>>, <<2, 2>>, TRUE) @@ [doors |-> <<>>],
      RoomPlan(<<4, 0>>, <<4, 1>>, FALSE) @@ [doors |-> <<>>]>>
PlanTiles ==
    set_tiles(set_tiles(Array(PlanWidth, PlanHeight, SOLID_ROCK), PlanRooms[1]),
              PlanRooms[2])
AddInputs == {<<0, 0>>, <<1, 0>>, <<1, 1>>, <<4, 0>>, <<3, 1>>}

\* RoomPlan.__contains__
InRoom(point, rm) ==
    /\ rm.bl[1] <= point[1] /\ point[1] <= rm.tr[1]
    /\ rm.bl[2] <= point[2] /\ point[2] <= rm.tr[2]

\* MazePlan._freeze_room_corners
freeze_room_corners(rms) ==
    UNION {{<<rms[k].bl[1], rms[k].bl[2]>>, <<rms[k].tr[1], rms[k].bl[2]>>,
            <<rms[k].bl[1], rms[k].tr[2]>>, <<rms[k].tr[1], rms[k].tr[2]>>} :
              k \in DOMAIN rms}

InitPlan ==
    /\ tiles = PlanTiles
    /\ rooms = PlanRooms
    /\ maze = [frozen |-> freeze_room_corners(PlanRooms), corridors |-> {},
               created |-> PlanTiles, fills |-> 0]
    /\ id_to_a = Empty
    /\ a_to_pos = Empty
    /\ pos_to_a = Empty
    /\ i_to_pos = Empty
    /\ pos_to_i = Empty
    /\ pos_to_m = Empty
    /\ world = Empty
    /\ last = NoCall

\* MazePlan.add(pos), RoomPlan.add_door included
MazePlan_add(pos) ==
    LET walled == {k \in DOMAIN rooms :
                      rooms[k].has_walls /\ InRoom(pos, rooms[k])}
        no_wall == {k \in DOMAIN rooms :
                       ~rooms[k].has_walls /\ InRoom(pos, rooms[k])}
    IN  /\ IF walled # {}
           THEN LET first == CHOOSE k \in walled : \A o \in walled : k <= o
                IN  IF tiles[pos[1]][pos[2]] \in WALLS
                    THEN /\ rooms' = [rooms EXCEPT ![first].doors = Append(@, pos)]
                         /\ tiles' = SetTile(tiles, pos, DOORWAY_OPEN)
                         /\ UNCHANGED maze
                    ELSE UNCHANGED <<rooms, tiles, maze>>
           ELSE IF no_wall # {}
           THEN UNCHANGED <<rooms, tiles, maze>>
           ELSE /\ tiles' = SetTile(tiles, pos, FLOOR)
                /\ maze' = [maze EXCEPT !.corridors = @ \cup {pos}]
                /\ UNCHANGED rooms
        /\ last' = [op |-> "add", pos |-> pos, err |-> NoErr]
        /\ UNCHANGED <<id_to_a, a_to_pos, pos_to_a, i_to_pos, pos_to_i,
                       pos_to_m, world>>

is_top_edge(coord, r) == ~IsInRect(<<coord[1], coord[2] + 2>>, r)
is_right_edge(coord, r) == ~IsInRect(<<coord[1] + 2, coord[2]>>, r)

\* the tiles with every position of carved set to FLOOR
Carve(grid, carved) ==
    [x \in DOMAIN grid |-> [y \in DOMAIN grid[x] |->
        IF <<x, y>> \in carved THEN FLOOR ELSE grid[x][y]]]

\* BinaryTree.fill: the offsets a cell chooses from
BinaryTreeChoices(coord, r) ==
    IF coord[1] % 2 = 0 /\ coord[2] % 2 = 0
    THEN (IF is_right_edge(coord, r) THEN {} ELSE {<<1, 0>>})
         \cup (IF is_top_edge(coord, r) THEN {} ELSE {<<0, 1>>})
    ELSE {}

BinaryTree_fill(r) ==
    /\ maze.fills < MaxFills
    /\ LET cells == {c \in PosInRect(r) : c[1] % 2 = 0 /\ c[2] % 2 = 0}
           choosing == {c \in cells : BinaryTreeChoices(c, r) # {}}
       IN  \E offset \in [choosing -> {<<1, 0>>, <<0, 1>>}] :
               /\ \A c \in choosing : offset[c] \in BinaryTreeChoices(c, r)
               /\ tiles' = Carve(tiles, cells \cup
                      {<<c[1] + offset[c][1], c[2] + offset[c][2]>> :
                          c \in choosing})
    /\ maze' = [maze EXCEPT !.fills = @ + 1]
    /\ last' = [op |-> "BinaryTree.fill", pos |-> None, err |-> NoErr]
    /\ UNCHANGED <<rooms, id_to_a, a_to_pos, pos_to_a, i_to_pos, pos_to_i,
                   pos_to_m, world>>

\* SideWinder.fill from column x of row y on, with the run so far and the
\* positions carved so far: every way it can end
RECURSIVE SideWinderRuns(_, _, _, _, _)
SideWinderRuns(r, x, y, run, carved) ==
    IF y > r[2][2] THEN {[carved |-> carved, err |-> NoErr]}
    ELSE IF x > r[2][1] THEN SideWinderRuns(r, r[1][1], y + 2, {}, carved)
    ELSE LET here == carved \cup {<<x, y>>}
             run1 == run \cup {<<x, y>>}
             finalize_run ==
                 UNION {SideWinderRuns(r, x + 2, y, {},
                                       here \cup {<<p[1], p[2] + 1>>}) :
                           p \in run1}
             onwards == SideWinderRuns(r, x + 2, y, run1,
                                       here \cup {<<x + 1, y>>})
         IN  IF is_top_edge(<<x, y>>, r)
                 THEN IF is_in_map(<<x + 1, y>>) THEN onwards
                      ELSE {[carved |-> here, err |-> "IndexError"]}
             ELSE IF is_right_edge(<<x, y>>, r) THEN finalize_run
             ELSE finalize_run \cup onwards

SideWinder_fill(r) ==
    /\ maze.fills < MaxFills
    /\ \E run \in SideWinderRuns(r, r[1][1], r[1][2], {}, {}) :
           /\ tiles' = Carve(tiles, run.carved)
           /\ last' = [op |-> "SideWinder.fill", pos |-> None, err |-> run.err]
    /\ maze' = [maze EXCEPT !.fills = @ + 1]
    /\ UNCHANGED <<rooms, id_to_a, a_to_pos, pos_to_a, i_to_pos, pos_to_i,
                   pos_to_m, world>>

\* Map.rect
map_rect == <<<<0, 0>>, <<size[1] - 1, size[2] - 1>>>>

NextPlan ==
    \/ \E pos \in AddInputs : MazePlan_add(pos)
    \/ BinaryTree_fill(map_rect)
    \/ SideWinder_fill(map_rect)

SpecPlan == InitPlan /\ [][NextPlan]_vars

(***************************************************************************)
(* C16.  After any sequence of MazePlan.add calls and fill() runs of the   *)
(* maze generators, the tile at every frozen position (every corner of a   *)
(* room of the plan) is the tile it was when the plan was created.         *)
(***************************************************************************)
C16_FrozenKept ==
    \A pos \in maze.frozen :
        tiles[pos[1]][pos[2]] = maze.created[pos[1]][pos[2]]

(***************************************************************************)
(* BiasedRecursiveBacktracker on a map of solid rock, one step of the      *)
(* recursion at a time.  maze.stack holds the frames of fill(cur, prev)    *)
(* with the options their loop is about to test.  next_cell draws from the *)
(* options with positive weights, so any option can be the step; dest_bias *)
(* and dest_offset are left out (dest_center is None) and fill_ratio is 1, *)
(* so that is_done() is true only once nb_cells() cells are visited.       *)
(* rng.rstest(0) is never true and rng.rstest(1) always is.                *)
(***************************************************************************)
BiasedCells == 3
fill_ratio == 1
\* NoProb stands for reconnect_prob=None
NoProb == -1
ReconnectProbs == {NoProb, 0, 1}

rstest(prob) == IF prob = 1 THEN {TRUE} ELSE IF prob = 0 THEN {FALSE} ELSE BOOLEAN

\* Map.opposite
opposite(from_pos, pivot_pos) ==
    LET x3 == pivot_pos[1] + (pivot_pos[1] - from_pos[1])
        y3 == pivot_pos[2] + (pivot_pos[2] - from_pos[2])
    IN  IF 0 <= x3 /\ x3 < size[1] /\ 0 <= y3 /\ y3 < size[2]
        THEN <<x3, y3>> ELSE None

\* Map.cell_align: every result the two orders of rng.sample([-1, 1], 2) give
cell_align(coord, r) ==
    {LET x == IF coord[1] % 2 = 0 THEN coord[1]
              ELSE IF IsInRect(<<coord[1] + shift[1], coord[2]>>, r)
                   THEN coord[1] + shift[1] ELSE coord[1] + shift[2]
         y == IF coord[2] % 2 = 0 THEN coord[2]
              ELSE IF IsInRect(<<x, coord[2] + shift[1]>>, r)
                   THEN coord[2] + shift[1] ELSE coord[2] + shift[2]
     IN  <<x, y>> : shift \in {<<-1, 1>>, <<1, -1>>}}

\* BiasedRecursiveBacktracker.start_cell(None)
start_cell(r) == UNION {cell_align(coord, r) : coord \in PosInRect(r)}

\* MazeAlgo.nb_cells
nb_cells(r) ==
    LET w == r[2][1] - r[1][1] + 1
        h == r[2][2] - r[1][2] + 1
    IN  ((w \div 2) + (w % 2)) * ((h \div 2) + (h % 2))

is_done(visited, r) == Cardinality(visited) >= fill_ratio * nb_cells(r)

\* step_options(cur, prev): every list the draw of rstest can give
step_options(cur, prev, visited, r, prob) ==
    LET NotVisited(cell) == cell \notin visited
        options == SelectSeq(neighbors(cur, r), NotVisited)
        opp == opposite(prev, cur)
    IN  IF options = <<>> /\ prev # None /\ prob # NoProb
        THEN {IF draw /\ opp # None /\ IsInRect(opp, r)
                  THEN <<opp>> ELSE <<>> : draw \in rstest(prob)}
        ELSE {options}

InitBiased ==
    /\ tiles = Array(2 * BiasedCells - 1, 2 * BiasedCells - 1, SOLID_ROCK)
    /\ \E r \in MazeRects(tiles), prob \in ReconnectProbs :
       \E start \in start_cell(r) :
           maze = [rect |-> r, start |-> start, reconnect_prob |-> prob,
                   visited |-> {}, stack |-> <<>>, pc |-> "new"]
    /\ id_to_a = Empty
    /\ a_to_pos = Empty
    /\ pos_to_a = Empty
    /\ i_to_pos = Empty
    /\ pos_to_i = Empty
    /\ pos_to_m = Empty
    /\ world = Empty
    /\ rooms = Empty
    /\ last = NoCall

biasedVars ==
    <<id_to_a, a_to_pos, pos_to_a, i_to_pos, pos_to_i, pos_to_m, world,
      rooms, last>>

\* fill(): the start is visited, then fill(start) as far as its loop
biased_fill ==
    /\ maze.pc = "new"
    /\ tiles' = SetTile(tiles, maze.start, FLOOR)
    /\ \E options \in step_options(maze.start, None, {maze.start}, maze.rect,
                                   maze.reconnect_prob) :
           maze' = [maze EXCEPT
                       !.visited = {maze.start},
                       !.stack = <<[cur |-> maze.start, prev |-> None,
                                    options |-> options]>>,
                       !.pc = "fill"]
    /\ UNCHANGED biasedVars

\* one turn of the loop of the innermost fill(cur, prev): the step is
\* drawn, the tile between is carved and fill(step, cur) runs to its loop
biased_step ==
    /\ maze.pc = "fill"
    /\ LET frame == maze.stack[Len(maze.stack)]
       IN  /\ frame.options # <<>>
           /\ ~is_done(maze.visited, maze.rect)
           /\ \E step \in Range(frame.options) :
                  /\ tiles' = SetTile(SetTile(tiles,
                                  MidPoint(frame.cur, step), FLOOR),
                                  step, FLOOR)
                  /\ \E options \in step_options(step, frame.cur,
                            maze.visited \cup {step}, maze.rect,
                            maze.reconnect_prob) :
                         maze' = [maze EXCEPT
                             !.visited = @ \cup {step},
                             !.stack = Append(@,
                                 [cur |-> step, prev |-> frame.cur,
                                  options |-> options])]
    /\ UNCHANGED biasedVars

\* the loop of the innermost fill(cur, prev) is over: it returns, and the
\* caller draws its options again
biased_return ==
    /\ maze.pc = "fill"
    /\ LET depth == Len(maze.stack)
           frame == maze.stack[depth]
       IN  /\ frame.options = <<>> \/ is_done(maze.visited, maze.rect)
           /\ IF depth = 1
              THEN maze' = [maze EXCEPT !.stack = <<>>, !.pc = "done"]
              ELSE LET caller == maze.stack[depth - 1]
                   IN  \E options \in step_options(caller.cur, caller.prev,
                               maze.visited, maze.rect, maze.reconnect_prob) :
                           maze' = [maze EXCEPT
                               !.stack = [SubSeq(@, 1, depth - 1) EXCEPT
                                             ![depth - 1].options = options]]
    /\ UNCHANGED <<tiles, biasedVars>>

NextBiased ==
    \/ biased_fill
    \/ biased_step
    \/ biased_return

SpecBiased == InitBiased /\ [][NextBiased]_vars
\* every call that can go on does go on
SpecBiasedFair == SpecBiased /\ WF_vars(NextBiased)

\* the cells a walk in steps of 2 inside the rect reaches from the start
ReachableCells ==
    {pos \in PosInRect(maze.rect) :
        (pos[1] - maze.start[1]) % 2 = 0 /\ (pos[2] - maze.start[2]) % 2 = 0}

(***************************************************************************)
(* C17.  fill() returns, whatever the start, the steps drawn and the       *)
(* reconnection probability (None, 0 or 1), and when it has returned every *)
(* cell reachable from the start has been visited.                         *)
(***************************************************************************)
C17_FillReturns ==
    <>(maze.pc = "done" /\ ReachableCells \subseteq maze.visited)

\* the part that holds: a fill() that has returned has visited every cell
C17_VisitedOnReturn ==
    maze.pc = "done" => ReachableCells \subseteq maze.visited

\* and without a reconnection probability of 1 fill() returns
C17_ReturnsBelowOne ==
    (maze.reconnect_prob # 1) => <>(maze.pc = "done")

(***************************************************************************)
(* Builder.gen_level() on a map of solid rock, one turn of its split loop  *)
(* at a time.  last holds the locals of the running call: split_attempts,  *)
(* nb_areas, areas and area_rooms, and small_splits, the number of turns   *)
(* of the loop that split an area with a side under 7.                     *)
(* geom.rect_dimension is the number of columns and of rows of a rect;     *)
(* rng.sub_rect(area, min_side, max_side) gives a rect inside the area     *)
(* with sides from min_side to max_side, shorter where the area is: the    *)
(* largest one from the bottom-left corner or the smallest one at the      *)
(* top-right corner; geom.rect_center is the middle of a rect and          *)
(* geom.line the positions of the straight line between two positions.     *)
(***************************************************************************)
LevelWidth == 16
LevelHeight == 8
SplitAttempts == 12
MinAreaSide == 7
MinRoomSide == 4
MaxRoomSide == 12

RectDimension(r) == <<r[2][1] - r[1][1] + 1, r[2][2] - r[1][2] + 1>>

\* round(n / 10) as Python rounds: to the nearest, a half to the even one
RoundTenths(n) ==
    LET q == n \div 10
        m == n % 10
    IN  IF m < 5 THEN q
        ELSE IF m > 5 THEN q + 1
        ELSE IF q % 2 = 0 THEN q ELSE q + 1

\* the borders as randrange draws them, an odd one left where it is
BordersUnsnapped(lo, hi) == lo..(hi - 1)

\* the borders area_split can draw between lo and hi: randrange, then an
\* odd border moved by one to either side
Borders(lo, hi) ==
    UNION {IF b % 2 = 0 THEN {b} ELSE {b - 1, b + 1} : b \in lo..(hi - 1)}

\* Builder.area_split(rect): every pair of rects it can return
area_split(r) ==
    LET x1 == r[1][1]
        y1 == r[1][2]
        x2 == r[2][1]
        y2 == r[2][2]
        w == RectDimension(r)[1]
        h == RectDimension(r)[2]
    IN  IF w > h
        THEN {<<<<<<x1, y1>>, <<border, y2>>>>, <<<<border + 1, y1>>, <<x2, y2>>>>>> :
                 border \in Borders(x1 + RoundTenths(3 * w),
                                    x1 + RoundTenths(7 * w))}
        ELSE {<<<<<<x1, y1>>, <<x2, border>>>>, <<<<x1, border + 1>>, <<x2, y2>>>>>> :
                 border \in Borders(y1 + RoundTenths(3 * h),
                                    y1 + RoundTenths(7 * h))}

\* the test of the loop of gen_level that lets every area be split
TooSmallNever(area) == FALSE
\* the test of the loop of gen_level: min(rect_dimension(area)) < 7
TooSmall(area) ==
    Min(RectDimension(area)[1], RectDimension(area)[2]) < MinAreaSide

SubRects(area) ==
    LET w == RectDimension(area)[1]
        h == RectDimension(area)[2]
        big == <<Min(w, MaxRoomSide), Min(h, MaxRoomSide)>>
        small == <<Min(w, MinRoomSide), Min(h, MinRoomSide)>>
    IN  <<<<area[1], <<area[1][1] + big[1] - 1, area[1][2] + big[2] - 1>>>>,
          <<<<area[2][1] - small[1] + 1, area[2][2] - small[2] + 1>>, area[2]>>>>

RectCenter(r) == MidPoint(r[1], r[2])
Line(c1, c2) == LosSteps(c1, c2)

\* a line_connect that carves nothing
LineConnectNothing(grid, room1, room2) == grid

\* Builder.line_connect
line_connect(grid, room1, room2) ==
    LET steps == Line(RectCenter(to_rect(room1)), RectCenter(to_rect(room2)))
    IN  Carve(grid, Range(steps))

\* the rooms of gen_level stamped one after the other
RECURSIVE StampRooms(_, _, _)
StampRooms(grid, plans, k) ==
    IF k > Len(plans) THEN grid
    ELSE StampRooms(set_tiles(grid, plans[k]), plans, k + 1)

\* the loop that connects the room of each area to the one popped before
RECURSIVE ConnectRooms(_, _, _)
ConnectRooms(grid, plans, k) ==
    IF k <= 1 THEN grid
    ELSE ConnectRooms(line_connect(grid, plans[k], plans[k - 1]), plans, k - 1)

InitLevel ==
    /\ tiles = Array(LevelWidth, LevelHeight, SOLID_ROCK)
    /\ rooms = <<>>
    /\ last = NoCall
    /\ id_to_a = Empty
    /\ a_to_pos = Empty
    /\ pos_to_a = Empty
    /\ i_to_pos = Empty
    /\ pos_to_i = Empty
    /\ pos_to_m = Empty
    /\ world = Empty
    /\ maze = Empty

levelVars ==
    <<id_to_a, a_to_pos, pos_to_a, i_to_pos, pos_to_i, pos_to_m, world, maze>>

\* gen_level() up to its loop: nb_areas is drawn and the map is split
gen_level ==
    /\ last = NoCall
    /\ \E nb_areas \in 3..7, halves \in area_split(map_rect) :
           last' = [op |-> "gen_level", pc |-> "split",
                    split_attempts |-> SplitAttempts, nb_areas |-> nb_areas,
                    areas |-> halves, area_rooms |-> Empty,
                    small_splits |-> 0]
    /\ UNCHANGED <<tiles, rooms, levelVars>>

\* one turn of the loop
gen_level_attempt ==
    /\ last.op = "gen_level" /\ last.pc = "split"
    /\ last.split_attempts # 0 /\ Len(last.areas) < last.nb_areas
    /\ \E idx \in DOMAIN last.areas :
           IF TooSmall(last.areas[idx])
           THEN last' = [last EXCEPT !.split_attempts = @ - 1]
           ELSE \E halves \in area_split(last.areas[idx]) :
                    LET dim == RectDimension(last.areas[idx])
                    IN  last' = [last EXCEPT
                            !.split_attempts = @ - 1,
                            !.areas = SubSeq(@, 1, idx - 1) \o halves
                                          \o SubSeq(@, idx + 1, Len(@)),
                            !.small_splits =
                                IF dim[1] < MinAreaSide \/ dim[2] < MinAreaSide
                                THEN @ + 1 ELSE @]
    /\ UNCHANGED <<tiles, rooms, levelVars>>

\* the loop is over: a room for each area, then the corridors
gen_level_rooms ==
    /\ last.op = "gen_level" /\ last.pc = "split"
    /\ last.split_attempts = 0 \/ Len(last.areas) >= last.nb_areas
    /\ \E pick \in [DOMAIN last.areas -> {1, 2}] :
           \E plans \in {[k \in DOMAIN last.areas |->
                            LET sub == SubRects(last.areas[k])[pick[k]]
                            IN  RoomPlan(sub[1], sub[2], TRUE)]} :
           LET area_rooms == [area \in Range(last.areas) |->
                                 plans[CHOOSE k \in DOMAIN last.areas :
                                           /\ last.areas[k] = area
                                           /\ \A j \in DOMAIN last.areas :
                                                  last.areas[j] = area => j <= k]]
           IN  /\ rooms' = rooms \o plans
               /\ tiles' = ConnectRooms(StampRooms(tiles, plans, 1), plans,
                                        Len(plans))
               /\ last' = [last EXCEPT !.pc = "done",
                                       !.area_rooms = area_rooms]
    /\ UNCHANGED levelVars

NextLevel ==
    \/ gen_level
    \/ gen_level_attempt
    \/ gen_level_rooms

SpecLevel == InitLevel /\ [][NextLevel]_vars

Inside(inner, outer) ==
    /\ outer[1][1] <= inner[1][1] /\ inner[2][1] <= outer[2][1]
    /\ outer[1][2] <= inner[1][2] /\ inner[2][2] <= outer[2][2]

(***************************************************************************)
(* C18.  After the first split of the whole map, gen_level() makes at most *)
(* 12 turns of its split loop, none of which splits an area with a side    *)
(* under 7, and ends with between 2 and 7 areas, no more than the nb_areas *)
(* it drew; every area then has one room, inside it, and the builder has   *)
(* as many rooms as there are areas.                                       *)
(***************************************************************************)
C18_GenLevel ==
    last.op = "gen_level" =>
        /\ last.split_attempts \in 0..SplitAttempts
        /\ last.small_splits = 0
        /\ Len(last.areas) >= 2 /\ Len(last.areas) <= last.nb_areas
        /\ last.nb_areas <= 7
        /\ last.pc = "done" =>
               /\ DOMAIN last.area_rooms = Range(last.areas)
               /\ Len(rooms) = Len(last.areas)
               /\ Cardinality(Range(last.areas)) = Len(last.areas)
               /\ \A area \in Range(last.areas) :
                      Inside(to_rect(last.area_rooms[area]), area)
               /\ \A k \in DOMAIN rooms : \E area \in Range(last.areas) :
                      last.area_rooms[area] = rooms[k]

\* a level whose loop has spent its 12 attempts short of the areas it drew
C18_Witness ==
    /\ last.op = "gen_level" /\ last.pc = "done"
    /\ last.split_attempts = 0
    /\ Len(last.areas) > 2 /\ Len(last.areas) < last.nb_areas
    /\ Len(rooms) = Len(last.areas)

\* C18 as it is stated: gen_level() ends with between 3 and 8 areas
C18_ThreeToEight ==
    (last.op = "gen_level" /\ last.pc = "done") =>
        /\ SplitAttempts - last.split_attempts <= 12
        /\ last.small_splits = 0
        /\ Len(last.areas) >= 3 /\ Len(last.areas) <= 8
        /\ DOMAIN last.area_rooms = Range(last.areas)
        /\ Len(rooms) = Len(last.areas)

(***************************************************************************)
(* Map.__getstate__ and Map.__setstate__: a map is pickled and the state   *)
(* is restored into a new Map, with tender.hero restored before it or      *)
(* still None.  The live map is left as it is; last holds the state that   *)
(* was pickled, the indices of the new map and the indices of the live map *)
(* before the call.  A map that tender has no hero for is not modelled:    *)
(* tender.hero is the hero while the map is pickled.                       *)
(***************************************************************************)
Hero == "hero"
Indices ==
    [id_to_a |-> id_to_a, a_to_pos |-> a_to_pos, pos_to_a |-> pos_to_a,
     i_to_pos |-> i_to_pos, pos_to_i |-> pos_to_i, pos_to_m |-> pos_to_m]
NoIndices ==
    [id_to_a |-> Empty, a_to_pos |-> Empty, pos_to_a |-> Empty,
     i_to_pos |-> Empty, pos_to_i |-> Empty, pos_to_m |-> Empty]

\* __getstate__ that leaves the hero in the copy of _pos_to_a
GetStateKeepsPos(live) ==
    IF Hero \in DOMAIN live.a_to_pos
    THEN [err |-> NoErr, hero_pos |-> live.a_to_pos[Hero],
          dict |-> [live EXCEPT !.id_to_a = DictDel(@, ActorId(Hero)),
                                !.a_to_pos = DictDel(@, Hero)]]
    ELSE [err |-> NoErr, hero_pos |-> None, dict |-> live]

\* __getstate__: hero_pos is None when the state has no "__hero_pos"
GetState(live) ==
    IF Hero \in DOMAIN live.a_to_pos
    THEN IF ActorId(Hero) \notin DOMAIN live.id_to_a
             \/ live.a_to_pos[Hero] \notin DOMAIN live.pos_to_a
         THEN [err |-> "KeyError", hero_pos |-> None, dict |-> NoIndices]
         ELSE [err |-> NoErr, hero_pos |-> live.a_to_pos[Hero],
               dict |-> [live EXCEPT
                            !.id_to_a = DictDel(@, ActorId(Hero)),
                            !.a_to_pos = DictDel(@, Hero),
                            !.pos_to_a = DictDel(@, live.a_to_pos[Hero])]]
    ELSE [err |-> NoErr, hero_pos |-> None, dict |-> live]

\* __setstate__(state) on a new Map, place(tender.hero, hero_pos) included
SetState(state, hero_restored) ==
    IF state.hero_pos # None /\ ~hero_restored
    THEN [err |-> "RuntimeError", indices |-> NoIndices]
    ELSE IF state.hero_pos = None
    THEN [err |-> NoErr, indices |-> state.dict]
    ELSE IF Hero \in DOMAIN state.dict.a_to_pos
            \/ state.hero_pos \in DOMAIN state.dict.pos_to_a
    THEN [err |-> "ValueError", indices |-> state.dict]
    ELSE [err |-> NoErr,
          indices |-> [state.dict EXCEPT
              !.id_to_a = DictSet(@, ActorId(Hero), Hero),
              !.a_to_pos = DictSet(@, Hero, state.hero_pos),
              !.pos_to_a = DictSet(@, state.hero_pos, Hero)]]

\* pickle.dumps(map), then pickle.loads of it
pickle(hero_restored) ==
    /\ ~last.noop
    /\ LET state == GetState(Indices)
           new == IF state.err # NoErr
                  THEN [err |-> state.err, indices |-> NoIndices]
                  ELSE SetState(state, hero_restored)
       IN  last' = [op |-> "pickle", hero_restored |-> hero_restored,
                    state |-> state, err |-> new.err,
                    restored |-> new.indices, live |-> Indices,
                    noop |-> TRUE]
    /\ UNCHANGED <<mapVars, world, rooms, maze>>

NextPickle ==
    \/ Next
    \/ \E hero_restored \in BOOLEAN : pickle(hero_restored)

SpecPickle == Init /\ [][NextPickle]_vars

\* the hero is in the id index and is the actor recorded where it stands
HeroRecorded ==
    /\ Hero \in DOMAIN a_to_pos
    /\ ActorId(Hero) \in DOMAIN id_to_a
    /\ a_to_pos[Hero] \in DOMAIN pos_to_a
    /\ pos_to_a[a_to_pos[Hero]] = Hero

RoundTrip ==
    /\ last.state.err = NoErr
    /\ ActorId(Hero) \notin DOMAIN last.state.dict.id_to_a
    /\ Hero \notin DOMAIN last.state.dict.a_to_pos
    /\ Hero \notin Range(last.state.dict.pos_to_a)
    /\ Indices = last.live
    /\ IF last.hero_restored
       THEN /\ last.err = NoErr
            /\ last.restored = last.live
            /\ last.restored.a_to_pos[Hero] = a_to_pos[Hero]
            /\ last.restored.pos_to_a[a_to_pos[Hero]] = Hero
       ELSE last.err = "RuntimeError"

RecordedAt(thing, pos) ==
    IF thing \in Actors
    THEN pos \in DOMAIN pos_to_a' /\ pos_to_a'[pos] = thing
    ELSE pos \in DOMAIN pos_to_i' /\ thing \in Range(pos_to_i'[pos])

Relocated ==
    /\ last'.err = NoErr
    /\ FindIn(a_to_pos', i_to_pos', last'.thing) = last'.pos
    /\ RecordedAt(last'.thing, last'.pos)
    /\ find(last'.thing) # last'.pos => ~RecordedAt(last'.thing, find(last'.thing))

(***************************************************************************)
(* C20.  move(thing, there) of a thing that is on the map, actor or item:  *)
(* after the call find(thing) is there, the thing is recorded at there     *)
(* (actor_at, items_at) and no longer at the position it had.              *)
(***************************************************************************)
C20_MoveRelocates ==
    [][(last'.op = "move" /\ Contains(last'.thing)) => Relocated]_vars

\* what holds: an actor that is the one recorded at its position is moved
C20_ActorRelocates ==
    [][(/\ last'.op = "move" /\ last'.thing \in DOMAIN a_to_pos
        /\ a_to_pos[last'.thing] \in DOMAIN pos_to_a
        /\ pos_to_a[a_to_pos[last'.thing]] = last'.thing) => Relocated]_vars

(***************************************************************************)
(* C21.  Every list that path(start, goal) returns begins with start, ends *)
(* with goal, steps between tiles at Chebyshev distance 1, and each of its *)
(* positions other than the first and the goal is free; and the call       *)
(* returns a list whenever start is goal or a tile next to goal can be     *)
(* walked to from start over free tiles, whether goal is free or not.      *)
(***************************************************************************)
C21_PathShape ==
    last.op = "path" =>
        /\ last.ret # None =>
              /\ last.ret[1] = last.start
              /\ last.ret[Len(last.ret)] = last.goal
              /\ \A i \in 1..(Len(last.ret) - 1) :
                     distance(last.ret[i], last.ret[i + 1]) = 1
              /\ \A i \in 2..Len(last.ret) :
                     last.ret[i] # last.goal => is_free(last.ret[i])
        /\ (\/ last.start = last.goal
            \/ \E pos \in WalkFrom(last.start, last.goal) \ {last.goal} :
                   distance(pos, last.goal) = 1)
               => last.ret # None

\* a path of three tiles or more to a goal that is a wall or has the hero on it
C21_Witness ==
    /\ last.op = "path" /\ last.ret # None
    /\ Len(last.ret) >= 3
    /\ ~is_free(last.goal)
    /\ \A i \in 2..(Len(last.ret) - 1) : is_free(last.ret[i])

\* the distances by layers: layer 0 is start, layer n + 1 the free tiles next
\* to a tile of layer n that no earlier layer holds; limit NoDist is no limit
RECURSIVE FreeLayers(_, _, _, _)
FreeLayers(layer, dists, n, limit) ==
    LET more == {pos \in iter_coords \ DOMAIN dists :
                    /\ is_free(pos)
                    /\ \E cur \in layer : distance(cur, pos) = 1}
    IN  IF n = limit \/ more = {} THEN dists
        ELSE FreeLayers(more, [pos \in more |-> n + 1] @@ dists, n + 1, limit)
FreeDists(start, limit) == FreeLayers({start}, start :> 0, 0, limit)

(***************************************************************************)
(* C22.  dist_metrics(start, max_dist=d) records exactly the positions     *)
(* whose shortest walk from start over free tiles has at most d steps,     *)
(* start with 0, each with the length of that shortest walk; without       *)
(* max_dist it records every position such a walk reaches.                 *)
(***************************************************************************)
C22_MetricsAreShortest ==
    last.op = "dist_metrics" =>
        /\ last.err = NoErr
        /\ last.ret.dists = FreeDists(last.start, last.max_dist)

\* a limit that cuts the map: a tile is recorded at max_dist, another one
\* that a walk reaches is further and is not recorded
C22_Witness ==
    /\ last.op = "dist_metrics" /\ last.max_dist >= 1
    /\ DOMAIN last.ret.dists # DOMAIN FreeDists(last.start, NoDist)
    /\ \E pos \in DOMAIN last.ret.dists : last.ret.dists[pos] = last.max_dist

\* no limit: every tile a walk reaches is recorded
C22_WitnessNoLimit ==
    /\ last.op = "dist_metrics" /\ last.max_dist = NoDist
    /\ \E pos \in DOMAIN last.ret.dists : last.ret.dists[pos] > MaxDist

\* the options that the innermost running fill(cur, prev) has just drawn
TopFrame == maze.stack[Len(maze.stack)]

(***************************************************************************)
(* C23.  No cell that is in the visited set is among the step options that *)
(* step_options returns: a dead end is reconnected to the cell opposite    *)
(* the approach direction only if that cell is not visited yet.            *)
(***************************************************************************)
C23_NoVisitedOption ==
    maze.pc = "fill" =>
        \A cell \in Range(TopFrame.options) : cell \notin maze.visited

\* the part that holds: a visited cell is offered only at a dead end and only
\* as the single cell opposite the approach direction, inside the rectangle
C23_ReconnectOnlyOpposite ==
    maze.pc = "fill" =>
        \A cell \in Range(TopFrame.options) :
            cell \in maze.visited =>
                /\ TopFrame.prev # None
                /\ maze.reconnect_prob # NoProb
                /\ TopFrame.options = <<opposite(TopFrame.prev, TopFrame.cur)>>
                /\ IsInRect(cell, maze.rect)
                /\ \A other \in Range(neighbors(TopFrame.cur, maze.rect)) :
                       other \in maze.visited

(***************************************************************************)
(* SpecSplit: Builder.area_split called once on a rectangle with corners   *)
(* between (0, 0) and (SplitSide, SplitSide).  rng.randrange on an empty   *)
(* range raises ValueError.                                                *)
(***************************************************************************)
SplitSide == 8

SplitRects ==
    {r \in ((0..SplitSide) \X (0..SplitSide)) \X ((0..SplitSide) \X (0..SplitSide)) :
        r[1][1] <= r[2][1] /\ r[1][2] <= r[2][2]}

InitSplit ==
    /\ tiles = Empty
    /\ id_to_a = Empty
    /\ a_to_pos = Empty
    /\ pos_to_a = Empty
    /\ i_to_pos = Empty
    /\ pos_to_i = Empty
    /\ pos_to_m = Empty
    /\ world = Empty
    /\ rooms = Empty
    /\ maze = Empty
    /\ last = NoCall

split(r) ==
    /\ last = NoCall
    /\ IF area_split(r) = {}
       THEN last' = [op |-> "area_split", rect |-> r, ret |-> None,
                     err |-> "ValueError"]
       ELSE \E ret \in area_split(r) :
                last' = [op |-> "area_split", rect |-> r, ret |-> ret,
                         err |-> NoErr]
    /\ UNCHANGED <<mapVars, world, rooms, maze>>

NextSplit == \E r \in SplitRects : split(r)

SpecSplit == InitSplit /\ [][NextSplit]_vars

\* the two rects of ret cut r in two: along x when r is wider than high,
\* along y otherwise, the first ending on an even coordinate, both with a
\* tile at least, the second starting right after the first, and every tile
\* of r in exactly one of them
SplitsInTwo(r, ret) ==
    LET w == RectDimension(r)[1]
        h == RectDimension(r)[2]
        axis == IF w > h THEN 1 ELSE 2
        other == 3 - axis
    IN  /\ ret[1][1] = r[1]
        /\ ret[2][2] = r[2]
        /\ ret[1][2][other] = r[2][other]
        /\ ret[2][1][other] = r[1][other]
        /\ ret[1][2][axis] % 2 = 0
        /\ ret[2][1][axis] = ret[1][2][axis] + 1
        /\ PosInRect(ret[1]) # {}
        /\ PosInRect(ret[2]) # {}
        /\ PosInRect(ret[1]) \cap PosInRect(ret[2]) = {}
        /\ PosInRect(ret[1]) \cup PosInRect(ret[2]) = PosInRect(r)

Padded(center, radius, free, in_map) ==
    [k \in 1..(8 * radius) |->
        LET t == RingRaw(center, radius)[k]
        IN  IF (in_map => is_in_map(t)) /\ (free => is_free(t))
            THEN t ELSE None]

(***************************************************************************)
(* C25.  With sparse=False, _ring returns without raising, for every       *)
(* center, radius and combination of in_map and free, a list of 8 * radius *)
(* entries in ring order: the coordinate where the filters accept it, None *)
(* where one rejects it.                                                   *)
(***************************************************************************)
C25_NonSparseRing ==
    (last.op = "ring" /\ ~last.sparse) =>
        /\ last.err = NoErr
        /\ last.ret = Padded(last.center, last.radius, last.free, last.in_map)

\* the part that holds: a non-sparse call that does not raise returns that
\* list, and only a call with in_map and free on a ring that leaves the map
\* raises
C25_PaddedUnlessRaised ==
    (last.op = "ring" /\ ~last.sparse) =>
        /\ last.err = NoErr =>
               last.ret = Padded(last.center, last.radius, last.free,
                                 last.in_map)
        /\ last.err # NoErr =>
               /\ last.err = "TypeError"
               /\ last.free /\ last.in_map
               /\ \E t \in Range(RingRaw(last.center, last.radius)) :
                      ~is_in_map(t)

\* RoomPlan.iter_tiles: the tiles of a room inside its walls
Interior(rm) ==
    IF rm.has_walls
    THEN PosInRect(<<<<rm.bl[1] + 1, rm.bl[2] + 1>>, <<rm.tr[1] - 1, rm.tr[2] - 1>>>>)
    ELSE PosInRect(to_rect(rm))

\* the tiles that walks over walkable tiles in 8-neighbour steps reach from
\* the tiles of frontier, added to those of seen
RECURSIVE Flood(_, _)
Flood(seen, frontier) ==
    IF frontier = {} THEN seen
    ELSE Flood(seen \cup frontier,
               {pos \in UNION {{<<cur[1] + dx, cur[2] + dy>> :
                                   dx \in -1..1, dy \in -1..1} :
                                      cur \in frontier} :
                   is_walkable(pos)} \ (seen \cup frontier))

(***************************************************************************)
(* C26.  When gen_level() has returned, the centre of every room it placed *)
(* and every tile inside the walls of every room is walkable and is        *)
(* reached from the centre of the first room by 8-neighbour steps over     *)
(* walkable tiles.                                                         *)
(***************************************************************************)
C26_LevelConnected ==
    (last.op = "gen_level" /\ last.pc = "done") =>
        LET first == RectCenter(to_rect(rooms[1]))
        IN  /\ is_walkable(first)
            /\ \A reach \in {Flood({}, {first})} :
               \A k \in DOMAIN rooms :
                   /\ RectCenter(to_rect(rooms[k])) \in reach
                   /\ Interior(rooms[k]) \subseteq reach

\* three rooms or more, each with tiles inside its walls, and a corridor
\* carved through the rock between rooms
C26_Witness ==
    /\ last.op = "gen_level" /\ last.pc = "done"
    /\ Len(rooms) >= 3
    /\ \A k \in DOMAIN rooms : Interior(rooms[k]) # {}
    /\ \E pos \in iter_coords :
           /\ tiles[pos[1]][pos[2]] = FLOOR
           /\ \A k \in DOMAIN rooms : ~IsInRect(pos, to_rect(rooms[k]))

(***************************************************************************)
(* SpecFrame: a map of rock, FrameWidth by FrameHeight, and a maze         *)
(* generator built with a rectangle of it, maze.rect; BinaryTree.fill and  *)
(* SideWinder.fill run on that rectangle, MaxFills times at most.          *)
(* maze.created keeps the tiles as they were before the first fill.        *)
(***************************************************************************)
FrameWidth == 4
FrameHeight == 3

InitFrame ==
    /\ tiles = Array(FrameWidth, FrameHeight, SOLID_ROCK)
    /\ \E bl \in GridCoords(tiles), tr \in GridCoords(tiles) :
           /\ bl[1] <= tr[1] /\ bl[2] <= tr[2]
           /\ maze = [frozen |-> {}, corridors |-> {}, created |-> tiles,
                      fills |-> 0, rect |-> <<bl, tr>>]
    /\ rooms = <<>>
    /\ id_to_a = Empty
    /\ a_to_pos = Empty
    /\ pos_to_a = Empty
    /\ i_to_pos = Empty
    /\ pos_to_i = Empty
    /\ pos_to_m = Empty
    /\ world = Empty
    /\ last = NoCall

NextFrame ==
    \/ BinaryTree_fill(maze.rect)
    \/ SideWinder_fill(maze.rect)

SpecFrame == InitFrame /\ [][NextFrame]_vars

\* no tile outside the rectangle r differs between the grids before and after
SameOutside(before, after, r) ==
    \A pos \in GridCoords(before) \ PosInRect(r) :
        after[pos[1]][pos[2]] = before[pos[1]][pos[2]]

(***************************************************************************)
(* C27.  A fill() of a maze generator built with a rectangle leaves every  *)
(* tile outside the rectangle as it was and writes to no coordinate        *)
(* outside the map (no write raises IndexError).                           *)
(***************************************************************************)
C27_FillsOnlyRect ==
    last.op \in {"BinaryTree.fill", "SideWinder.fill"} =>
        /\ last.err = NoErr
        /\ SameOutside(maze.created, tiles, maze.rect)

\* the part that holds for BinaryTree: its fill() changes no tile outside the
\* rectangle and does not raise
C27_BinaryTreeFrame ==
    [][last'.op = "BinaryTree.fill" =>
          (last'.err = NoErr /\ SameOutside(tiles, tiles', maze.rect))]_vars

\* and for RecursiveBacktracker and BiasedRecursiveBacktracker, whose maps
\* start as rock: every tile outside the rectangle is rock at every step
C27_BacktrackerFrame ==
    \A pos \in iter_coords \ PosInRect(maze.rect) :
        tiles[pos[1]][pos[2]] = SOLID_ROCK

(***************************************************************************)
(* SpecNeighbours: a map of ConnSide by ConnSide tiles, each rock or       *)
(* floor, and one call of Map.connectedness on it.                         *)
(***************************************************************************)
ConnSide == 3

\* geom.is_diag
IsDiag(pos1, pos2) == pos1[1] # pos2[1] /\ pos1[2] # pos2[2]

\* is_unconn of connectedness
is_unconn(pos) == tiles[pos[1]][pos[2]] \in {SOLID_ROCK}

\* the loop over adjs[::2]: the first entry that is not None decides
RECURSIVE StartsOnDiag(_, _, _)
StartsOnDiag(pos, adjs, k) ==
    IF k > Len(adjs) THEN NoErr
    ELSE IF adjs[k] = None THEN StartsOnDiag(pos, adjs, k + 2)
    ELSE IF IsDiag(pos, adjs[k]) THEN NoErr
    ELSE "ValueError"

\* the loop over range(size * 2 - 1), from its turn i on
RECURSIVE ConnLoop(_, _, _, _)
ConnLoop(adjs, i, max_conn, cur_conn) ==
    IF i >= Len(adjs) * 2 - 1 THEN max_conn
    ELSE LET tile == adjs[(i % Len(adjs)) + 1]
         IN  IF tile = None \/ is_unconn(tile)
             THEN IF i >= Len(adjs) - 1 THEN Max(max_conn, cur_conn)
                  ELSE ConnLoop(adjs, i + 1, Max(max_conn, cur_conn), 0)
             ELSE ConnLoop(adjs, i + 1, max_conn, cur_conn + 1)

\* Map.connectedness(pos)
Connectedness(pos) ==
    LET adjs == adjacents(pos, FALSE, {}, TRUE, FALSE)
        err == StartsOnDiag(pos, adjs, 1)
    IN  [err |-> err,
         ret |-> IF err = NoErr THEN ConnLoop(adjs, 0, 0, 0) ELSE None]

InitNeighbours ==
    /\ tiles \in [0..(ConnSide - 1) -> [0..(ConnSide - 1) -> {SOLID_ROCK, FLOOR}]]
    /\ id_to_a = Empty
    /\ a_to_pos = Empty
    /\ pos_to_a = Empty
    /\ i_to_pos = Empty
    /\ pos_to_i = Empty
    /\ pos_to_m = Empty
    /\ world = Empty
    /\ rooms = Empty
    /\ maze = Empty
    /\ last = NoCall

connectedness(pos) ==
    /\ last = NoCall
    /\ last' = [op |-> "connectedness", pos |-> pos,
                ret |-> Connectedness(pos).ret, err |-> Connectedness(pos).err]
    /\ UNCHANGED <<mapVars, world, rooms, maze>>

NextNeighbours == \E pos \in iter_coords : connectedness(pos)

SpecNeighbours == InitNeighbours /\ [][NextNeighbours]_vars

\* the neighbours of pos that are in the map and not rock, by their place
\* 0..7 in the ring, and the longest run of them around the ring
ConnectedAt(pos) ==
    {k \in 0..7 : LET t == RingRaw(pos, 1)[k + 1]
                  IN  is_in_map(t) /\ tiles[t[1]][t[2]] # SOLID_ROCK}
LongestRun(pos) ==
    LET runs == {n \in 0..8 : \E k \in 0..7 : \A j \in 0..(n - 1) :
                    ((k + j) % 8) \in ConnectedAt(pos)}
    IN  CHOOSE n \in runs : \A o \in runs : o <= n

(***************************************************************************)
(* C28.  connectedness(pos) returns, without raising, the length of the    *)
(* longest run of consecutive neighbours of pos, around the ring of 8,     *)
(* that are in the map and not SolidRock: 8 when all eight are, 0 when     *)
(* none is.                                                                *)
(***************************************************************************)
C28_LongestRun ==
    last.op = "connectedness" =>
        /\ last.err = NoErr
        /\ last.ret = LongestRun(last.pos)

\* the part that holds: the longest run, unless all eight neighbours are
\* connected, and then 0
C28_LongestRunBelowEight ==
    last.op = "connectedness" =>
        /\ last.err = NoErr
        /\ last.ret = IF LongestRun(last.pos) = 8 THEN 0
                      ELSE LongestRun(last.pos)

Reverse(seq) == [k \in 1..Len(seq) |-> seq[Len(seq) + 1 - k]]

(***************************************************************************)
(* C29.  For all positions a and b of the map, line_of_sight(a, b) is None *)
(* exactly when line_of_sight(b, a) is None, and when they are lists each  *)
(* is the other one reversed.                                              *)
(***************************************************************************)
C29_LosSymmetric ==
    last.op = "line_of_sight" =>
        LET back == LineOfSight(tiles, last.pos2, last.pos1)
        IN  /\ last.ret = None <=> back = None
            /\ last.ret # None => back = Reverse(last.ret)

\* a line that is neither straight nor diagonal, seen from end to end
C29_Witness ==
    /\ last.op = "line_of_sight" /\ last.ret # None
    /\ Len(last.ret) >= 3
    /\ last.pos1[1] # last.pos2[1] /\ last.pos1[2] # last.pos2[2]
    /\ Abs(last.pos1[1] - last.pos2[1]) # Abs(last.pos1[2] - last.pos2[2])
    /\ LineOfSight(tiles, last.pos2, last.pos1) = Reverse(last.ret)
    /\ \E pos \in iter_coords : tiles[pos[1]][pos[2]] \notin SEE_THROUGH

\* and a line that an opaque tile between its ends obstructs both ways
C29_WitnessNone ==
    /\ last.op = "line_of_sight" /\ last.ret = None
    /\ tiles[last.pos1[1]][last.pos1[2]] \in SEE_THROUGH
    /\ tiles[last.pos2[1]][last.pos2[2]] \in SEE_THROUGH
    /\ LineOfSight(tiles, last.pos2, last.pos1) = None

(***************************************************************************)
(* SpecScope: the maps of SpecPath, and one MapScope query on them:        *)
(* visible_scope, traversable_scope or reachable_scope at a position with  *)
(* a radius of 0 to MaxDist, iterated to the list of its coordinates.      *)
(***************************************************************************)
ScopeType == {"VISIBLE", "TRAVERSABLE", "REACHABLE"}

\* MapScope._disc: the rings of radius 1 to max_radius, one after the other
RECURSIVE Disc(_, _, _, _)
Disc(at, radius, max_radius, reject) ==
    IF radius > max_radius THEN <<>>
    ELSE Ring(at, radius, FALSE, reject, TRUE, TRUE)
             \o Disc(at, radius + 1, max_radius, reject)

\* a set as a list: the keys of a dict, in no particular order
RECURSIVE KeysOf(_)
KeysOf(set) ==
    IF set = {} THEN <<>>
    ELSE LET k == CHOOSE k \in set : TRUE
         IN  <<k>> \o KeysOf(set \ {k})

\* the coordinates of the metrics with the centre among them
MetricsCoordsWithAt(at, radius) ==
    KeysOf(DOMAIN dist_metrics(at, None, radius).dists)

\* [c for c in metrics.coords() if c != self.at]
MetricsCoords(at, radius) ==
    KeysOf(DOMAIN dist_metrics(at, None, radius).dists \ {at})

\* MapScope._run_query with pred=None
RunQuery(scope_type, at, radius, include_at) ==
    LET Seen(coord) == LineOfSight(tiles, at, coord) # None
        all_coords == IF include_at THEN <<at>> ELSE <<>>
    IN  IF scope_type = "VISIBLE"
            THEN all_coords \o SelectSeq(Disc(at, 1, radius, {}), Seen)
        ELSE IF scope_type = "TRAVERSABLE"
            THEN all_coords \o Disc(at, 1, radius,
                                    {pos \in iter_coords : ~is_walkable(pos)})
        ELSE all_coords \o MetricsCoords(at, radius)

scope(scope_type, at, radius, include_at) ==
    /\ last = NoCall
    /\ last' = [op |-> "scope", scope_type |-> scope_type, at |-> at,
                radius |-> radius, include_at |-> include_at,
                ret |-> RunQuery(scope_type, at, radius, include_at),
                err |-> NoErr]
    /\ UNCHANGED <<mapVars, world, rooms, maze>>

NextScope ==
    \E scope_type \in ScopeType, at \in iter_coords, radius \in 0..MaxDist :
    \E include_at \in BOOLEAN : scope(scope_type, at, radius, include_at)

SpecScope == InitPath /\ [][NextScope]_vars

(***************************************************************************)
(* C30.  The coordinates of reachable_scope(center, r) are coordinates of  *)
(* traversable_scope(center, r), and each of them but the centre is free   *)
(* and at a Chebyshev distance of r at most from the centre; no scope,     *)
(* visible, traversable or reachable, yields the centre unless include_at  *)
(* is set.                                                                 *)
(***************************************************************************)
C30_Scopes ==
    last.op = "scope" =>
        /\ last.scope_type = "REACHABLE" =>
               /\ Range(last.ret) \subseteq
                      Range(RunQuery("TRAVERSABLE", last.at, last.radius,
                                     last.include_at))
               /\ \A coord \in Range(last.ret) \ {last.at} :
                      /\ is_free(coord)
                      /\ distance(last.at, coord) <= last.radius
        /\ ~last.include_at => last.at \notin Range(last.ret)

\* a reachable scope that is not empty and leaves out a tile of the
\* traversable scope: one the hero stands on, or one behind a wall
C30_Witness ==
    /\ last.op = "scope" /\ last.scope_type = "REACHABLE"
    /\ ~last.include_at
    /\ last.at \in DOMAIN pos_to_a
    /\ last.ret # <<>>
    /\ Range(last.ret) #
           Range(RunQuery("TRAVERSABLE", last.at, last.radius, FALSE))

=============================================================================
